---- MODULE Spec2Model ----
(***************************************************************************)
(* Trust-and-audit core of Alchimista: the retention / legal-hold          *)
(* enforcement engine of services/ingestion_api_service/main.py and the    *)
(* tenant authorization gate of services/shared/auth.py.                   *)
(*                                                                         *)
(* Time is counted in whole days.  A NULL column and a Python None are     *)
(* written NULL (numbers) and None (strings).                              *)
(***************************************************************************)
EXTENDS Integers, Sequences, FiniteSets, TLC

\* ---------------------------------------------------------------- bounds
MaxNow == 2          \* the clock runs from day 1 to day MaxNow
MaxUploads == 2      \* objects ever uploaded to the reports bucket
MaxHolds == 1        \* legal holds ever created
MaxLimit == 2        \* largest `limit` of a RetentionEnforcementRequest
MaxRetainDays == 1   \* largest retain_days of a policy
MaxContext == 2      \* longest context_docs or context_chunks list of a decision
GateLimit == 2       \* limit of the InflightGate; one caller more than that calls it
MaxSleeps == 3       \* times the clock of the key resolver moves on
MaxDlq == 2          \* messages that reach the dead-letter subscription
MaxReplays == 2      \* calls of replay_dlq

\* ---------------------------------------------------------------- values
NULL == 0
None == ""
Tenants == {"t1", "t2"}
Uris == {"u1", "u2"}
Docs == {"d1"}
ArtifactIds == <<"a1", "a2", "a3", "a4">>
HoldIds == <<"h1", "h2", "h3">>
ArtifactTypes == {"decision_export", "decision_bundle"}
JobId == "retention-enforce:j1"
OverlappingJobId == "retention-enforce:j2"
Actor == "admin"

Min(a, b) == IF a < b THEN a ELSE b
Range(s) == {s[i] : i \in 1..Len(s)}
Reverse(s) == [i \in 1..Len(s) |-> s[Len(s) + 1 - i]]

VARIABLES
  now,                 \* datetime.now(timezone.utc), in days
  storage,             \* the reports bucket: uri -> stored object
  uploads,             \* number of uploads so far (source of generations)
  audit_artifacts,     \* committed rows of table audit_artifacts
  retention_policies,  \* committed rows of table retention_policies
  legal_holds,         \* committed rows of table legal_holds
  run,                 \* the enforce_retention call in flight
  auth,                \* the require_auth call: its request, config and answer
  documents,           \* table documents: doc_id -> row
  jobs,                \* table jobs, type PROCESS: doc_id -> row
  chunks,              \* rows of table chunks
  ai_decisions,        \* rows of table ai_decisions, in order of id
  ai_decision_context_docs,    \* rows of table ai_decision_context_docs
  ai_decision_context_chunks,  \* rows of table ai_decision_context_chunks
  response,            \* what the last request of the document ledger answered
  report_config,       \* audit_report_signing_key and its key id
  report_written,      \* the signed document as export wrote it
  report_document,     \* the signed document as the reports bucket holds it
  verification,        \* what the last verify_decision_artifact returned
  txn,                 \* the ingest_decision transaction in flight
  gate,                \* the InflightGate and the position of each of its callers
  oidc,                \* the key resolver: its clock, its two caches, its last call
  pubsub               \* the dead-letter subscription, the ingest topic, the last replay

\* The tables of the document and decision ledger, and its last answer
ledger == <<documents, jobs, chunks, ai_decisions, ai_decision_context_docs,
            ai_decision_context_chunks, response>>

\* The signed document, its signing configuration and its verification
signing == <<report_config, report_written, report_document, verification>>

\* State of the running service outside the committed tables
runtime == <<txn, gate, oidc, pubsub>>

vars == <<now, storage, uploads, audit_artifacts, retention_policies, legal_holds, run, auth,
          ledger, signing, runtime>>

\* ------------------------------------------------------------ object store
NoObject == [generation |-> NULL, context_docs |-> {}]

\* ------------------------------------------------------------ catalog
NoPolicy == [retain_days |-> NULL, legal_hold_enabled |-> FALSE]

EmptyMetadata ==
  [decision_id |-> None, case_id |-> None, decision_ids |-> {}, context_docs |-> {},
   storage_deleted |-> "unset"]

\* INSERT ... ON CONFLICT (tenant, artifact_type, gs_uri) DO NOTHING
_insert_audit_artifact_records(rows, item) ==
  IF \E i \in 1..Len(rows) :
       /\ rows[i].tenant = item.tenant
       /\ rows[i].artifact_type = item.artifact_type
       /\ rows[i].gs_uri = item.gs_uri
  THEN rows
  ELSE Append(rows, item)

ArtifactRow(n, tenant, artifact_type, gs_uri, generation, metadata) ==
  [artifact_id |-> ArtifactIds[n], tenant |-> tenant, artifact_type |-> artifact_type,
   gs_uri |-> gs_uri, object_generation |-> generation, created_at |-> now,
   metadata |-> metadata,
   deleted_at |-> NULL, deleted_by |-> None, deletion_reason |-> None, delete_job_id |-> None]

\* The tail every artifact writer shares: upload_bytes_immutable
\* (if_generation_match=0, so the write fails when the object exists), then
\* the catalog insert.
WriteArtifact(tenant, artifact_type, gs_uri, docs, metadata) ==
  /\ uploads < MaxUploads
  /\ storage[gs_uri].generation = NULL
  /\ uploads' = uploads + 1
  /\ storage' = [storage EXCEPT ![gs_uri] = [generation |-> uploads + 1, context_docs |-> docs]]
  /\ audit_artifacts' =
       _insert_audit_artifact_records(
         audit_artifacts,
         ArtifactRow(uploads + 1, tenant, artifact_type, gs_uri, uploads + 1, metadata))
  /\ UNCHANGED <<now, retention_policies, legal_holds, run, auth, ledger, signing, runtime>>

\* The export document carries the decisions with their context_docs; the
\* catalog metadata is {total, returned, include_context}.
export_decisions(tenants, docsets) ==
  \E tenant \in tenants, gs_uri \in Uris, docs \in docsets :
    WriteArtifact(tenant, "decision_export", gs_uri, docs, EmptyMetadata)

\* The catalog metadata of a bundle is {bundle_id, total, returned, case_id, regulator_ref}.
bundle_decisions(tenants, docsets, case_ids) ==
  \E tenant \in tenants, gs_uri \in Uris, docs \in docsets, case_id \in case_ids :
    WriteArtifact(tenant, "decision_bundle", gs_uri, docs,
                  [EmptyMetadata EXCEPT !.case_id = case_id])

\* ------------------------------------------------------------ policies
upsert_retention_policy(tenants, artifact_types, flags) ==
  \E tenant \in tenants, artifact_type \in artifact_types,
     retain_days \in 1..MaxRetainDays, legal_hold_enabled \in flags :
    /\ retention_policies' =
         [retention_policies EXCEPT ![<<tenant, artifact_type>>] =
            [retain_days |-> retain_days, legal_hold_enabled |-> legal_hold_enabled]]
    /\ UNCHANGED <<now, storage, uploads, audit_artifacts, legal_holds, run, auth, ledger, signing, runtime>>

\* ------------------------------------------------------------ legal holds
create_legal_hold(payloads) ==
  \E payload \in payloads :
    /\ Len(legal_holds) < MaxHolds
    /\ legal_holds' =
         Append(legal_holds,
                [hold_id |-> HoldIds[Len(legal_holds) + 1], tenant |-> payload[1],
                 scope_type |-> payload[2], scope_id |-> payload[3], released_at |-> NULL])
    /\ UNCHANGED <<now, storage, uploads, audit_artifacts, retention_policies, run, auth, ledger, signing, runtime>>

\* An UPDATE that sets released_at = NOW() on every call
_release_legal_hold_Restamp(holds, hold_id) ==
  [i \in 1..Len(holds) |->
     IF holds[i].hold_id = hold_id
     THEN [holds[i] EXCEPT !.released_at = now]
     ELSE holds[i]]

\* UPDATE legal_holds SET released_at = COALESCE(released_at, NOW()) WHERE hold_id = %s
_release_legal_hold(holds, hold_id) ==
  [i \in 1..Len(holds) |->
     IF holds[i].hold_id = hold_id /\ holds[i].released_at = NULL
     THEN [holds[i] EXCEPT !.released_at = now]
     ELSE holds[i]]

release_legal_hold ==
  \E i \in 1..Len(legal_holds) :
    /\ legal_holds' = _release_legal_hold(legal_holds, HoldIds[i])
    /\ legal_holds' # legal_holds
    /\ UNCHANGED <<now, storage, uploads, audit_artifacts, retention_policies, run, auth, ledger, signing, runtime>>

\* SELECT ... FROM legal_holds [WHERE tenant = %s] [AND released_at IS NULL] ORDER BY created_at DESC
_list_legal_holds(tenant, active_only) ==
  Reverse(SelectSeq(legal_holds,
                    LAMBDA h : /\ (tenant = None \/ h.tenant = tenant)
                               /\ (~active_only \/ h.released_at = NULL)))

\* ------------------------------------------------------------ the clock
Tick ==
  /\ now < MaxNow
  /\ now' = now + 1
  /\ UNCHANGED <<storage, uploads, audit_artifacts, retention_policies, legal_holds, run, auth, ledger, signing, runtime>>

\* ------------------------------------------------------------ enforcement
\* str(value).strip() on the identifiers the model uses: a padded identifier
\* is written with a leading blank.
strip(s) == IF s = " t1" THEN "t1" ELSE IF s = " d1" THEN "d1" ELSE s

\* str(value).strip().lower()
lower(s) ==
  IF s = "TENANT" THEN "tenant"
  ELSE IF s = "Document" THEN "document"
  ELSE IF s = "Bearer" THEN "bearer"
  ELSE IF s = "Basic" THEN "basic"
  ELSE s

HoldMatches_NoWildcard(hold, artifact_tenant, artifact_id, gs_uri, metadata) ==
  LET decision_id == strip(metadata.decision_id)
      case_id == strip(metadata.case_id)
      decision_ids == {strip(item) : item \in metadata.decision_ids} \ {None}
      context_docs == {strip(item) : item \in metadata.context_docs} \ {None}
      scope_type == lower(strip(hold.scope_type))
      scope_id == strip(hold.scope_id)
  IN /\ hold.tenant = artifact_tenant
     /\ scope_type # None
     /\ scope_id # None
     /\ CASE scope_type = "tenant" -> scope_id = artifact_tenant
          [] scope_type = "artifact" -> scope_id \in {artifact_id, gs_uri}
          [] scope_type = "decision" -> scope_id = decision_id \/ scope_id \in decision_ids
          [] scope_type = "document" -> scope_id \in context_docs
          [] scope_type = "case" -> scope_id = case_id
          [] OTHER -> FALSE

HoldMatches(hold, artifact_tenant, artifact_id, gs_uri, metadata) ==
  LET decision_id == strip(metadata.decision_id)
      case_id == strip(metadata.case_id)
      decision_ids == {strip(item) : item \in metadata.decision_ids} \ {None}
      context_docs == {strip(item) : item \in metadata.context_docs} \ {None}
      scope_type == lower(strip(hold.scope_type))
      scope_id == strip(hold.scope_id)
  IN /\ hold.tenant = artifact_tenant
     /\ scope_type # None
     /\ scope_id # None
     /\ CASE scope_type = "tenant" -> scope_id \in {artifact_tenant, "*"}
          [] scope_type = "artifact" -> scope_id \in {artifact_id, gs_uri}
          [] scope_type = "decision" -> scope_id = decision_id \/ scope_id \in decision_ids
          [] scope_type = "document" -> scope_id \in context_docs
          [] scope_type = "case" -> scope_id = case_id
          [] OTHER -> FALSE

_matching_legal_hold_ids_for_artifact(artifact_tenant, artifact_id, gs_uri, metadata, holds) ==
  LET matching == SelectSeq(holds, LAMBDA hold :
                         HoldMatches(hold, artifact_tenant, artifact_id, gs_uri, metadata))
  IN [i \in 1..Len(matching) |-> matching[i].hold_id]

\* SELECT a.*, p.* FROM audit_artifacts a LEFT JOIN retention_policies p ...
\* WHERE a.deleted_at IS NULL [AND a.tenant = %s] [AND a.artifact_type = %s]
\* ORDER BY a.created_at ASC LIMIT %s   (rows are kept in insertion order,
\* which is the order of created_at)
_list_retention_candidates(tenant, artifact_type, limit) ==
  LET rows == SelectSeq(audit_artifacts,
                        LAMBDA a : /\ a.deleted_at = NULL
                                   /\ (tenant = None \/ a.tenant = tenant)
                                   /\ (artifact_type = None \/ a.artifact_type = artifact_type))
      joined == [i \in 1..Len(rows) |->
                   [artifact_id |-> rows[i].artifact_id, tenant |-> rows[i].tenant,
                    artifact_type |-> rows[i].artifact_type, gs_uri |-> rows[i].gs_uri,
                    object_generation |-> rows[i].object_generation,
                    created_at |-> rows[i].created_at, metadata |-> rows[i].metadata,
                    policy_retain_days |->
                      retention_policies[<<rows[i].tenant, rows[i].artifact_type>>].retain_days,
                    policy_legal_hold_enabled |->
                      retention_policies[<<rows[i].tenant, rows[i].artifact_type>>].legal_hold_enabled]]
  IN SubSeq(joined, 1, Min(limit, Len(joined)))

_extract_retention_policy_from_candidate(row) ==
  IF row.policy_retain_days = NULL
  THEN NoPolicy
  ELSE [retain_days |-> row.policy_retain_days,
        legal_hold_enabled |-> row.policy_legal_hold_enabled]

\* to_jsonb(%s::boolean)
to_jsonb(value) == IF value THEN "true" ELSE "false"

_mark_audit_artifact_deleted_AnyRow(rows, mark, at) ==
  [i \in 1..Len(rows) |->
     IF /\ rows[i].tenant = mark.tenant
        /\ rows[i].artifact_type = mark.artifact_type
        /\ rows[i].deleted_at = NULL
     THEN [rows[i] EXCEPT !.deleted_at = at,
                          !.deleted_by = mark.deleted_by,
                          !.deletion_reason = mark.deletion_reason,
                          !.delete_job_id = mark.delete_job_id,
                          !.metadata.storage_deleted = to_jsonb(mark.storage_deleted)]
     ELSE rows[i]]

\* UPDATE audit_artifacts SET deleted_at = COALESCE(deleted_at, NOW()), ...
\* WHERE artifact_id = %s AND tenant = %s AND artifact_type = %s AND gs_uri = %s
\*   AND deleted_at IS NULL
_mark_audit_artifact_deleted(rows, mark, at) ==
  [i \in 1..Len(rows) |->
     IF /\ rows[i].artifact_id = mark.artifact_id
        /\ rows[i].tenant = mark.tenant
        /\ rows[i].artifact_type = mark.artifact_type
        /\ rows[i].gs_uri = mark.gs_uri
        /\ rows[i].deleted_at = NULL
     THEN [rows[i] EXCEPT !.deleted_at = at,
                          !.deleted_by = mark.deleted_by,
                          !.deletion_reason = mark.deletion_reason,
                          !.delete_job_id = mark.delete_job_id,
                          !.metadata.storage_deleted = to_jsonb(mark.storage_deleted)]
     ELSE rows[i]]

RECURSIVE apply_marks(_, _, _)
apply_marks(rows, marks, at) ==
  IF marks = <<>> THEN rows
  ELSE apply_marks(_mark_audit_artifact_deleted(rows, Head(marks), at), Tail(marks), at)

\* The object-store collaborator delete(uri, ifGenerationMatch?) -> bool: the
\* outcomes of one call.  A storage failure raises and changes nothing; an
\* absent object answers false; a present object is removed when the
\* generation matches (or none is given) and the call raises otherwise.
delete_gs_uri(gs_uri, if_generation_match) ==
  {[raised |-> TRUE, error |-> "ServiceUnavailable", result |-> FALSE, storage |-> storage]}
  \cup
  (IF storage[gs_uri].generation = NULL
   THEN {[raised |-> FALSE, error |-> None, result |-> FALSE, storage |-> storage]}
   ELSE IF if_generation_match = NULL \/ if_generation_match = storage[gs_uri].generation
   THEN {[raised |-> FALSE, error |-> None, result |-> TRUE,
          storage |-> [storage EXCEPT ![gs_uri] = NoObject]]}
   ELSE {[raised |-> TRUE, error |-> "PreconditionFailed", result |-> FALSE,
          storage |-> storage]})

RetentionEnforcementItem(row, action, hold_ids, error) ==
  [artifact_id |-> row.artifact_id, gs_uri |-> row.gs_uri, action |-> action,
   hold_ids |-> hold_ids, error |-> error]

IdleRun == [pc |-> "idle"]

\* enforce_retention up to the loop: now, the candidates and the active holds
enforce_retention_begin(dry_runs, tenants) ==
  \E dry_run \in dry_runs, tenant \in tenants, limit \in {1, MaxLimit} :
    /\ run.pc = "idle"
    /\ run' =
         [pc |-> "loop", dry_run |-> dry_run, tenant |-> tenant, limit |-> limit,
          now |-> now,
          candidates |-> _list_retention_candidates(tenant, None, limit),
          holds |-> _list_legal_holds(tenant, TRUE),
          idx |-> 1, items |-> <<>>, marks |-> <<>>, storage_deleted |-> FALSE,
          scanned |-> Len(_list_retention_candidates(tenant, None, limit)),
          eligible |-> 0, deleted |-> 0, skipped_not_expired |-> 0,
          skipped_on_hold |-> 0, skipped_policy_missing |-> 0, failed |-> 0]
    /\ UNCHANGED <<now, storage, uploads, audit_artifacts, retention_policies, legal_holds, auth, ledger, signing, runtime>>

\* What one pass of `for row in candidates` decides before it touches the
\* object store, with the hold ids the item carries.
candidate_decision_HoldFirst(row, holds, at, dry_run) ==
  LET policy == _extract_retention_policy_from_candidate(row)
      hold_ids == IF policy.legal_hold_enabled
                  THEN _matching_legal_hold_ids_for_artifact(
                         row.tenant, row.artifact_id, row.gs_uri, row.metadata, holds)
                  ELSE <<>>
  IN IF policy = NoPolicy THEN [action |-> "SKIP_POLICY_MISSING", hold_ids |-> <<>>]
     ELSE IF hold_ids # <<>> THEN [action |-> "SKIP_LEGAL_HOLD", hold_ids |-> hold_ids]
     ELSE IF row.created_at + policy.retain_days > at
       THEN [action |-> "SKIP_NOT_EXPIRED", hold_ids |-> <<>>]
     ELSE IF dry_run THEN [action |-> "WOULD_DELETE", hold_ids |-> <<>>]
     ELSE [action |-> "DELETE", hold_ids |-> <<>>]

candidate_decision_DryRunIgnored(row, holds, at, dry_run) ==
  LET policy == _extract_retention_policy_from_candidate(row)
      hold_ids == IF policy.legal_hold_enabled
                  THEN _matching_legal_hold_ids_for_artifact(
                         row.tenant, row.artifact_id, row.gs_uri, row.metadata, holds)
                  ELSE <<>>
  IN IF policy = NoPolicy THEN [action |-> "SKIP_POLICY_MISSING", hold_ids |-> <<>>]
     ELSE IF row.created_at + policy.retain_days > at
       THEN [action |-> "SKIP_NOT_EXPIRED", hold_ids |-> <<>>]
     ELSE IF hold_ids # <<>> THEN [action |-> "SKIP_LEGAL_HOLD", hold_ids |-> hold_ids]
     ELSE [action |-> "DELETE", hold_ids |-> <<>>]

candidate_decision(row, holds, at, dry_run) ==
  LET policy == _extract_retention_policy_from_candidate(row)
      hold_ids == IF policy.legal_hold_enabled
                  THEN _matching_legal_hold_ids_for_artifact(
                         row.tenant, row.artifact_id, row.gs_uri, row.metadata, holds)
                  ELSE <<>>
  IN IF policy = NoPolicy THEN [action |-> "SKIP_POLICY_MISSING", hold_ids |-> <<>>]
     ELSE IF row.created_at + policy.retain_days > at
       THEN [action |-> "SKIP_NOT_EXPIRED", hold_ids |-> <<>>]
     ELSE IF hold_ids # <<>> THEN [action |-> "SKIP_LEGAL_HOLD", hold_ids |-> hold_ids]
     ELSE IF dry_run THEN [action |-> "WOULD_DELETE", hold_ids |-> <<>>]
     ELSE [action |-> "DELETE", hold_ids |-> <<>>]

\* One pass of `for row in candidates`, up to and including the storage delete
enforce_retention_candidate ==
  /\ run.pc = "loop"
  /\ run.idx <= Len(run.candidates)
  /\ LET row == run.candidates[run.idx]
         decision == candidate_decision(row, run.holds, run.now, run.dry_run)
         item == RetentionEnforcementItem(row, decision.action, decision.hold_ids, None)
     IN
       IF decision.action = "SKIP_POLICY_MISSING" THEN
         /\ run' = [run EXCEPT !.skipped_policy_missing = @ + 1,
                               !.items = Append(@, item), !.idx = @ + 1]
         /\ UNCHANGED storage
       ELSE IF decision.action = "SKIP_NOT_EXPIRED" THEN
         /\ run' = [run EXCEPT !.skipped_not_expired = @ + 1,
                               !.items = Append(@, item), !.idx = @ + 1]
         /\ UNCHANGED storage
       ELSE IF decision.action = "SKIP_LEGAL_HOLD" THEN
         /\ run' = [run EXCEPT !.eligible = @ + 1, !.skipped_on_hold = @ + 1,
                               !.items = Append(@, item), !.idx = @ + 1]
         /\ UNCHANGED storage
       ELSE IF decision.action = "WOULD_DELETE" THEN
         /\ run' = [run EXCEPT !.eligible = @ + 1,
                               !.items = Append(@, item), !.idx = @ + 1]
         /\ UNCHANGED storage
       ELSE
         \E call \in delete_gs_uri(row.gs_uri, row.object_generation) :
           IF call.raised THEN
             /\ run' = [run EXCEPT !.eligible = @ + 1,
                                   !.failed = @ + 1,
                                   !.items = Append(@, RetentionEnforcementItem(row, "DELETE_FAILED", <<>>, call.error)),
                                   !.idx = @ + 1]
             /\ UNCHANGED storage
           ELSE
             /\ storage' = call.storage
             /\ run' = [run EXCEPT !.eligible = @ + 1,
                                   !.storage_deleted = call.result,
                                   !.pc = "mark"]
  /\ UNCHANGED <<now, uploads, audit_artifacts, retention_policies, legal_holds, auth, ledger, signing, runtime>>

enforce_retention_mark_AbsentFails ==
  /\ run.pc = "mark"
  /\ LET row == run.candidates[run.idx]
     IN IF run.storage_deleted
        THEN run' = [run EXCEPT
                  !.marks = Append(@, [artifact_id |-> row.artifact_id, tenant |-> row.tenant,
                                       artifact_type |-> row.artifact_type, gs_uri |-> row.gs_uri,
                                       deletion_reason |-> "retention_expired",
                                       deleted_by |-> Actor, delete_job_id |-> JobId,
                                       storage_deleted |-> run.storage_deleted]),
                  !.deleted = @ + 1,
                  !.items = Append(@, RetentionEnforcementItem(row, "DELETED", <<>>, None)),
                  !.idx = @ + 1,
                  !.pc = "loop"]
        ELSE run' = [run EXCEPT
                  !.failed = @ + 1,
                  !.items = Append(@, RetentionEnforcementItem(row, "DELETE_FAILED", <<>>, "NotFound")),
                  !.idx = @ + 1,
                  !.pc = "loop"]
  /\ UNCHANGED <<now, storage, uploads, audit_artifacts, retention_policies, legal_holds, auth, ledger, signing, runtime>>

\* _mark_audit_artifact_deleted inside the open transaction, then the DELETED item
enforce_retention_mark ==
  /\ run.pc = "mark"
  /\ LET row == run.candidates[run.idx]
     IN run' = [run EXCEPT
                  !.marks = Append(@, [artifact_id |-> row.artifact_id, tenant |-> row.tenant,
                                       artifact_type |-> row.artifact_type, gs_uri |-> row.gs_uri,
                                       deletion_reason |-> "retention_expired",
                                       deleted_by |-> Actor, delete_job_id |-> JobId,
                                       storage_deleted |-> run.storage_deleted]),
                  !.deleted = @ + 1,
                  !.items = Append(@, RetentionEnforcementItem(row, "DELETED", <<>>, None)),
                  !.idx = @ + 1,
                  !.pc = "loop"]
  /\ UNCHANGED <<now, storage, uploads, audit_artifacts, retention_policies, legal_holds, auth, ledger, signing, runtime>>

enforce_retention_commit_RollbackOnFailure ==
  /\ run.pc = "loop"
  /\ run.idx > Len(run.candidates)
  /\ audit_artifacts' = IF run.failed > 0 THEN audit_artifacts
                        ELSE apply_marks(audit_artifacts, run.marks, run.now)
  /\ run' = [run EXCEPT !.pc = "done"]
  /\ UNCHANGED <<now, storage, uploads, retention_policies, legal_holds, auth, ledger, signing, runtime>>

\* conn.commit() after the loop; the response is built from the counters
enforce_retention_commit ==
  /\ run.pc = "loop"
  /\ run.idx > Len(run.candidates)
  /\ audit_artifacts' = apply_marks(audit_artifacts, run.marks, run.now)
  /\ run' = [run EXCEPT !.pc = "done"]
  /\ UNCHANGED <<now, storage, uploads, retention_policies, legal_holds, auth, ledger, signing, runtime>>

\* the response has been returned
enforce_retention_return ==
  /\ run.pc = "done"
  /\ run' = IdleRun
  /\ UNCHANGED <<now, storage, uploads, audit_artifacts, retention_policies, legal_holds, auth, ledger, signing, runtime>>

\* The call dies before conn.commit() (crash, cancellation, lost connection):
\* the open transaction is rolled back.
enforce_retention_abort ==
  /\ run.pc \in {"loop", "mark"}
  /\ run' = IdleRun
  /\ UNCHANGED <<now, storage, uploads, audit_artifacts, retention_policies, legal_holds, auth, ledger, signing, runtime>>

\* A second POST /v1/admin/retention/enforce (limit 1, no dry run) that
\* starts and commits while the call in `run` is in its loop: it lists its
\* candidate among the committed rows, removes the object and marks the row.
\* Its UPDATE would wait for a row the first call has marked and not
\* committed, so it runs to its commit only on a row the first has not marked.
enforce_retention_overlapping ==
  /\ run.pc \in {"loop", "mark"}
  /\ _list_retention_candidates(None, None, 1) # <<>>
  /\ LET row == _list_retention_candidates(None, None, 1)[1]
         decision == candidate_decision(row, _list_legal_holds(None, TRUE), now, FALSE)
         mark == [artifact_id |-> row.artifact_id, tenant |-> row.tenant,
                  artifact_type |-> row.artifact_type, gs_uri |-> row.gs_uri,
                  deletion_reason |-> "retention_expired",
                  deleted_by |-> Actor, delete_job_id |-> OverlappingJobId,
                  storage_deleted |-> FALSE]
     IN /\ decision.action = "DELETE"
        /\ \A m \in Range(run.marks) : m.artifact_id # row.artifact_id
        /\ \E call \in delete_gs_uri(row.gs_uri, row.object_generation) :
             /\ ~call.raised
             /\ storage' = call.storage
             /\ audit_artifacts' =
                  _mark_audit_artifact_deleted(
                    audit_artifacts, [mark EXCEPT !.storage_deleted = call.result], now)
  /\ UNCHANGED <<now, uploads, retention_policies, legal_holds, run, auth, ledger, signing, runtime>>

enforce_retention ==
  \/ enforce_retention_candidate
  \/ enforce_retention_mark
  \/ enforce_retention_commit
  \/ enforce_retention_return
  \/ enforce_retention_abort

\* ------------------------------------------------------------ AuthGate
\* A JSON value of a claim: absent, a string, a number or a list whose items
\* are strings or numbers.
Absent == [type |-> "absent", str |-> None, num |-> NULL, list |-> <<>>]
Str(value) == [type |-> "str", str |-> value, num |-> NULL, list |-> <<>>]
Num(value) == [type |-> "int", str |-> None, num |-> value, list |-> <<>>]
List(items) == [type |-> "list", str |-> None, num |-> NULL, list |-> items]

\* int(time.time()) of the call, and the clock skew it tolerates
time_now == 100
skew == 30

\* str(claims.get(name) or "")
str_or_empty(raw) == IF raw.type = "str" THEN raw.str ELSE None

\* s.strip() of the claim strings the model uses
strip_claim(s) ==
  IF s = " " THEN None
  ELSE IF s = " t1 " THEN "t1"
  ELSE s

stripped_strings(raw) ==
  IF raw.type = "str" THEN {strip_claim(raw.str)} \ {None}
  ELSE IF raw.type = "list"
    THEN {strip_claim(raw.list[i].str) : i \in {j \in 1..Len(raw.list) : raw.list[j].type = "str"}}
         \ {None}
  ELSE {}

_normalize_aud_claim(raw) == stripped_strings(raw)

_extract_tenant_values(claims, claim_names) ==
  UNION {stripped_strings(claims[claim_name]) : claim_name \in claim_names}

\* _verify_registered_claims without the clock skew on exp
_verify_registered_claims_NoSkew(claims, config) ==
  IF claims.exp.type # "int" THEN 401
  ELSE IF time_now > claims.exp.num THEN 401
  ELSE IF claims.nbf.type = "int" /\ time_now + skew < claims.nbf.num THEN 401
  ELSE IF claims.iat.type = "int" /\ claims.iat.num > time_now + skew THEN 401
  ELSE IF config.auth_issuer # None /\ str_or_empty(claims.iss) # config.auth_issuer THEN 401
  ELSE IF config.auth_audiences # {} /\ _normalize_aud_claim(claims.aud) = {} THEN 401
  ELSE IF config.auth_audiences # {}
          /\ _normalize_aud_claim(claims.aud) \cap config.auth_audiences = {} THEN 401
  ELSE 200

\* The status _verify_registered_claims raises, or 200
_verify_registered_claims(claims, config) ==
  IF claims.exp.type # "int" THEN 401
  ELSE IF time_now > claims.exp.num + skew THEN 401
  ELSE IF claims.nbf.type = "int" /\ time_now + skew < claims.nbf.num THEN 401
  ELSE IF claims.iat.type = "int" /\ claims.iat.num > time_now + skew THEN 401
  ELSE IF config.auth_issuer # None /\ str_or_empty(claims.iss) # config.auth_issuer THEN 401
  ELSE IF config.auth_audiences # {} /\ _normalize_aud_claim(claims.aud) = {} THEN 401
  ELSE IF config.auth_audiences # {}
          /\ _normalize_aud_claim(claims.aud) \cap config.auth_audiences = {} THEN 401
  ELSE 200

\* The signature of a token is the key that made it
_verify_hmac_signature(token, algorithm, secret) ==
  IF algorithm # "HS256" THEN 401
  ELSE IF token.signed_with # secret THEN 401
  ELSE 200

_verify_rs256_signature(token, jwks_url) ==
  IF jwks_url = None THEN 503
  ELSE IF token.signed_with # jwks_url THEN 401
  ELSE 200

\* token.split("."), base64url and JSON decoding of the three segments: the
\* shape of a token says how far that gets
_decode_unverified(token) == IF token.shape # "jwt" THEN 401 ELSE 200

\* The status _decode_claims raises, or 200 when it returns the claims
_decode_claims(token, config) ==
  LET algorithm == token.alg
      allowed_algorithms ==
        IF config.auth_algorithms = {} THEN {"RS256"} ELSE config.auth_algorithms
      signature ==
        IF algorithm \notin allowed_algorithms THEN 401
        ELSE IF algorithm \in {"HS256", "HS512"}
          THEN IF config.auth_jwt_shared_secret = None THEN 503
               ELSE _verify_hmac_signature(token, algorithm, config.auth_jwt_shared_secret)
        ELSE IF algorithm = "RS256"
          THEN _verify_rs256_signature(token, config.auth_jwks_url)
        ELSE 401
  IN IF _decode_unverified(token) # 200 THEN _decode_unverified(token)
     ELSE IF signature # 200 THEN signature
     ELSE _verify_registered_claims(token.claims, config)

\* The status _authorize_tenant raises, or 200 when it returns
_authorize_tenant(claims, tenant, config) ==
  LET allowed_tenants == _extract_tenant_values(claims, config.auth_tenant_claims)
  IN IF tenant = None THEN 200
     ELSE IF allowed_tenants = {}
       THEN IF config.auth_require_tenant_claim THEN 403 ELSE 200
     ELSE IF "*" \in allowed_tenants THEN 200
     ELSE IF tenant \notin allowed_tenants THEN 403
     ELSE 200

HTTPException(status) == [status |-> status, returned |-> "raised", subject |-> None]

\* What require_auth answers: None, an AuthPrincipal or an HTTPException
require_auth(request, config, tenant) ==
  IF ~config.auth_enabled THEN [status |-> 200, returned |-> "None", subject |-> None]
  ELSE IF lower(request.scheme) # "bearer" THEN HTTPException(401)
  ELSE IF _decode_claims(request.token, config) # 200
    THEN HTTPException(_decode_claims(request.token, config))
  ELSE IF str_or_empty(request.token.claims.sub) = None THEN HTTPException(401)
  ELSE IF _authorize_tenant(request.token.claims, tenant, config) # 200
    THEN HTTPException(_authorize_tenant(request.token.claims, tenant, config))
  ELSE [status |-> 200, returned |-> "AuthPrincipal",
        subject |-> str_or_empty(request.token.claims.sub)]

\* A protected operation calls require_auth with the tenant of its request
require_auth_call ==
  /\ auth.pc = "request"
  /\ auth' = [auth EXCEPT !.pc = "answered",
                          !.response = require_auth(auth.request, auth.config, auth.tenant)]
  /\ UNCHANGED <<now, storage, uploads, audit_artifacts, retention_policies, legal_holds, run, ledger, signing, runtime>>

\* _require_admin_api_key that lets every key pass when none is configured
_require_admin_api_key_OpenWhenUnset(request, config) ==
  IF config.admin_api_key = None THEN 200
  ELSE IF request.x_admin_key # config.admin_api_key THEN 403
  ELSE 200

\* The status _require_admin_api_key raises, or 200; a request without the
\* x-admin-key header provides ""
_require_admin_api_key(request, config) ==
  IF config.admin_api_key = None THEN 503
  ELSE IF request.x_admin_key # config.admin_api_key THEN 403
  ELSE 200

\* An admin operation calls _require_admin_api_key once require_auth has
\* returned, and runs its body when that returns too
_require_admin_api_key_call ==
  /\ auth.pc = "answered"
  /\ auth.response.returned # "raised"
  /\ auth' =
       IF _require_admin_api_key(auth.request, auth.config) = 200
       THEN [auth EXCEPT !.pc = "admitted"]
       ELSE [auth EXCEPT !.pc = "refused",
                         !.response = HTTPException(_require_admin_api_key(auth.request,
                                                                           auth.config))]
  /\ UNCHANGED <<now, storage, uploads, audit_artifacts, retention_policies, legal_holds, run,
                 ledger, signing, runtime>>

Admitted == auth.pc = "admitted"

NoAuth == [pc |-> "none"]

\* ------------------------------------------------------------ document ledger
\* services/shared/db.py and the decision endpoints of the ingestion API.
\* Of a row's columns the ones kept are those a claim reads; mime_type and
\* size_bytes are written like source_uri, trace_id and metadata like model.
LedgerDocs == {"d1", "d2"}
UnknownDoc == "d3"
DecisionIds == {"x1", "x2"}
Models == {"m1", "m2"}
AuthOutcomes == {200, 401, 403}

NoDocument == [tenant |-> None, source_uri |-> None, content_hash |-> None]
NoJob == [tenant |-> None, status |-> None]
NoResponse == [op |-> None, tenant |-> None, status |-> NULL]

\* f"gs://{config.raw_bucket}/raw/{payload.tenant}/{doc_id}/{filename}"
gcs_uri(tenant, doc_id) == "raw/" \o tenant \o "/" \o doc_id

\* f"{message.id}:{idx:05d}", every document having one chunk
chunk_id_of(doc_id) == doc_id \o ":00000"

\* f"{message.id}:{idx:05d}" for the first n chunks of a document
chunk_ids_of(doc_id, n) == {doc_id \o ":0000" \o ToString(idx) : idx \in 0..(n - 1)}

ChunkIds == {chunk_id_of(d) : d \in LedgerDocs \cup {UnknownDoc}}

\* INSERT INTO documents ... ON CONFLICT (doc_id) DO UPDATE
upsert_document(rows, doc_id, tenant, source_uri, content_hash) ==
  IF rows[doc_id].tenant = None
  THEN [rows EXCEPT ![doc_id] = [tenant |-> tenant, source_uri |-> source_uri,
                                 content_hash |-> content_hash]]
  ELSE [rows EXCEPT ![doc_id].source_uri = source_uri,
                    ![doc_id].content_hash = IF content_hash # None THEN content_hash ELSE @]

\* INSERT INTO jobs ... ON CONFLICT (doc_id, type) DO UPDATE
upsert_process_job(rows, doc_id, tenant, status) ==
  IF rows[doc_id].tenant = None
  THEN [rows EXCEPT ![doc_id] = [tenant |-> tenant, status |-> status]]
  ELSE [rows EXCEPT ![doc_id].status = status]

\* SELECT ... FROM documents d LEFT JOIN jobs j ON j.doc_id = d.doc_id
\* WHERE d.doc_id = %s AND d.tenant = %s
fetch_document_status(doc_id, tenant) ==
  IF documents[doc_id].tenant = tenant
  THEN [found |-> TRUE, doc_id |-> doc_id, tenant |-> documents[doc_id].tenant,
        source_uri |-> documents[doc_id].source_uri, status |-> jobs[doc_id].status]
  ELSE [found |-> FALSE]

\* DELETE FROM chunks WHERE doc_id AND tenant, then INSERT the new chunks
replace_chunks(rows, doc_id, tenant, chunk_ids) ==
  {c \in rows : ~(c.doc_id = doc_id /\ c.tenant = tenant)}
    \cup {[chunk_id |-> c, doc_id |-> doc_id, tenant |-> tenant] : c \in chunk_ids}

\* POST /v1/ingest/signed-url
_ingest_signed_url(authz, tenants, doc_ids) ==
  /\ \E status \in authz, tenant \in tenants, doc_id \in doc_ids :
       IF status # 200
       THEN /\ response' = [op |-> "_ingest_signed_url", tenant |-> tenant, status |-> status]
            /\ UNCHANGED <<documents, jobs>>
       ELSE /\ documents' = upsert_document(documents, doc_id, tenant, gcs_uri(tenant, doc_id), None)
            /\ jobs' = upsert_process_job(jobs, doc_id, tenant, "QUEUED")
            /\ response' = [op |-> "_ingest_signed_url", tenant |-> tenant, status |-> 200,
                            doc_id |-> doc_id, gcs_uri |-> gcs_uri(tenant, doc_id)]
  /\ UNCHANGED <<now, storage, uploads, audit_artifacts, retention_policies, legal_holds, run,
                 auth, chunks, ai_decisions, ai_decision_context_docs,
                 ai_decision_context_chunks, signing, runtime>>

\* The statements of replace_chunks the database refuses: the DELETE of a
\* chunk that a decision cites (chunk_id REFERENCES chunks ON DELETE
\* RESTRICT), the INSERT of a chunk_id that a row it did not delete holds
replace_chunks_raises_Never(rows, links, doc_id, tenant, chunk_ids) == FALSE

replace_chunks_raises(rows, links, doc_id, tenant, chunk_ids) ==
  \/ \E c \in rows : /\ c.doc_id = doc_id
                      /\ c.tenant = tenant
                      /\ \E l \in links : l.chunk_id = c.chunk_id
  \/ \E c \in rows : /\ ~(c.doc_id = doc_id /\ c.tenant = tenant)
                      /\ c.chunk_id \in chunk_ids

\* POST /v1/process: the message names a document and its tenant, and the
\* text of the document gives `extracted` chunks.  Without text, or when the
\* database refuses a statement, nothing of the document is written and the
\* job fails.
process_direct(authz, tenants, doc_ids, outcomes) ==
  /\ \E status \in authz, tenant \in tenants, doc_id \in doc_ids, extracted \in outcomes :
       /\ IF status # 200
          THEN /\ response' = [op |-> "process_direct", tenant |-> tenant, status |-> status]
               /\ UNCHANGED <<documents, jobs, chunks>>
          ELSE IF /\ extracted > 0
                  /\ ~replace_chunks_raises(chunks, ai_decision_context_chunks, doc_id, tenant,
                                            chunk_ids_of(doc_id, extracted))
          THEN /\ documents' = upsert_document(documents, doc_id, tenant, gcs_uri(tenant, doc_id),
                                               "sha256/" \o tenant \o "/" \o doc_id)
               /\ chunks' = replace_chunks(chunks, doc_id, tenant,
                                           chunk_ids_of(doc_id, extracted))
               /\ jobs' = upsert_process_job(jobs, doc_id, tenant, "SUCCEEDED")
               /\ response' = [op |-> "process_direct", tenant |-> tenant, status |-> 200,
                               doc_id |-> doc_id]
          ELSE /\ jobs' = upsert_process_job(jobs, doc_id, tenant, "FAILED")
               /\ response' = [op |-> "process_direct", tenant |-> tenant, status |-> 500]
               /\ UNCHANGED <<documents, chunks>>
  /\ UNCHANGED <<now, storage, uploads, audit_artifacts, retention_policies, legal_holds, run,
                 auth, ai_decisions, ai_decision_context_docs, ai_decision_context_chunks, signing, runtime>>

\* GET /v1/doc/{doc_id}
get_document_status(authz, tenants, doc_ids) ==
  /\ \E status \in authz, tenant \in tenants, doc_id \in doc_ids :
       response' =
         IF status # 200
         THEN [op |-> "get_document_status", tenant |-> tenant, status |-> status]
         ELSE IF ~fetch_document_status(doc_id, tenant).found
         THEN [op |-> "get_document_status", tenant |-> tenant, status |-> 404]
         ELSE [op |-> "get_document_status", tenant |-> tenant, status |-> 200,
               row |-> fetch_document_status(doc_id, tenant)]
  /\ UNCHANGED <<now, storage, uploads, audit_artifacts, retention_policies, legal_holds, run,
                 auth, documents, jobs, chunks, ai_decisions, ai_decision_context_docs,
                 ai_decision_context_chunks, signing, runtime>>

\* ------------------------------------------------------------ decision ledger
\* AIDecisionIngestRequest: context_docs is a non-empty list without
\* duplicates, context_chunks a list without duplicates
UniqueSeqs(S, lo, hi) ==
  UNION {{s \in [1..n -> S] : \A i, j \in 1..n : i # j => s[i] # s[j]} : n \in lo..hi}

DecisionPayloads ==
  [decision_id : DecisionIds, tenant : Tenants, model : Models,
   context_docs : UniqueSeqs(LedgerDocs \cup {UnknownDoc}, 1, MaxContext),
   context_chunks : UniqueSeqs(ChunkIds, 0, MaxContext)]

\* A lookup that stops at the first unknown id
_missing_document_ids_First(tenant, doc_ids) ==
  LET missing == SelectSeq(doc_ids, LAMBDA doc_id : documents[doc_id].tenant # tenant)
  IN  IF missing = <<>> THEN <<>> ELSE <<missing[1]>>

\* SELECT doc_id FROM documents WHERE tenant = %s AND doc_id = ANY(%s)
_missing_document_ids(tenant, doc_ids) ==
  SelectSeq(doc_ids, LAMBDA doc_id : documents[doc_id].tenant # tenant)

\* SELECT chunk_id, doc_id FROM chunks WHERE tenant = %s AND chunk_id = ANY(%s).
\* The mismatched ids come in the order of the rows, which is any order.
_validate_context_chunks(tenant, chunk_ids, allowed_doc_ids) ==
  LET rows == {c \in chunks : c.tenant = tenant /\ c.chunk_id \in Range(chunk_ids)}
  IN  [missing |-> SelectSeq(chunk_ids, LAMBDA c : c \notin {r.chunk_id : r \in rows}),
       mismatched |-> {r.chunk_id : r \in {c \in rows : c.doc_id \notin Range(allowed_doc_ids)}}]

\* The row of (tenant, decision_id), 0 when there is none
decision_index(rows, tenant, decision_id) ==
  IF \E i \in 1..Len(rows) : rows[i].tenant = tenant /\ rows[i].decision_id = decision_id
  THEN CHOOSE i \in 1..Len(rows) : rows[i].tenant = tenant /\ rows[i].decision_id = decision_id
  ELSE 0

\* An INSERT INTO ai_decisions without its ON CONFLICT clause
_upsert_ai_decision_Insert(rows, payload, at) ==
  Append(rows, [id |-> Len(rows) + 1, decision_id |-> payload.decision_id,
                tenant |-> payload.tenant, model |-> payload.model,
                created_at |-> at, updated_at |-> at])

\* INSERT INTO ai_decisions ... ON CONFLICT (tenant, decision_id) DO UPDATE
_upsert_ai_decision(rows, payload, at) ==
  LET i == decision_index(rows, payload.tenant, payload.decision_id)
  IN  IF i = 0
      THEN Append(rows, [id |-> Len(rows) + 1, decision_id |-> payload.decision_id,
                         tenant |-> payload.tenant, model |-> payload.model,
                         created_at |-> at, updated_at |-> at])
      ELSE [rows EXCEPT ![i].model = payload.model, ![i].updated_at = at]

\* The INSERT ... ON CONFLICT DO NOTHING alone, without the DELETE before it
_replace_ai_decision_context_docs_Additive(rows, decision_ref_id, tenant, doc_ids) ==
  rows \cup {[decision_ref_id |-> decision_ref_id, tenant |-> tenant, doc_id |-> d] :
             d \in {x \in Range(doc_ids) :
                    ~\E r \in rows : r.decision_ref_id = decision_ref_id /\ r.doc_id = x}}

\* DELETE FROM ai_decision_context_docs WHERE decision_ref_id AND tenant, then
\* INSERT ... ON CONFLICT (decision_ref_id, doc_id) DO NOTHING
_replace_ai_decision_context_docs(rows, decision_ref_id, tenant, doc_ids) ==
  LET kept == {r \in rows : ~(r.decision_ref_id = decision_ref_id /\ r.tenant = tenant)}
  IN  kept \cup {[decision_ref_id |-> decision_ref_id, tenant |-> tenant, doc_id |-> d] :
                 d \in {x \in Range(doc_ids) :
                        ~\E r \in kept : r.decision_ref_id = decision_ref_id /\ r.doc_id = x}}

\* The same for ai_decision_context_chunks
_replace_ai_decision_context_chunks(rows, decision_ref_id, tenant, chunk_ids) ==
  LET kept == {r \in rows : ~(r.decision_ref_id = decision_ref_id /\ r.tenant = tenant)}
  IN  kept \cup {[decision_ref_id |-> decision_ref_id, tenant |-> tenant, chunk_id |-> c] :
                 c \in {x \in Range(chunk_ids) :
                        ~\E r \in kept : r.decision_ref_id = decision_ref_id /\ r.chunk_id = x}}

\* The HTTPException of ingest_decision, with the keys of its detail
DecisionError(payload, status, detail) ==
  [response |-> [op |-> "ingest_decision", tenant |-> payload.tenant, status |-> status,
                 detail |-> detail],
   ai_decisions |-> ai_decisions,
   ai_decision_context_docs |-> ai_decision_context_docs,
   ai_decision_context_chunks |-> ai_decision_context_chunks]

\* POST /v1/decisions: what the handler answers to a payload and the tables
\* it leaves, `status` being the outcome of its require_auth
ingest_decision_result(status, payload) ==
  LET missing_doc_ids == _missing_document_ids(payload.tenant, payload.context_docs)
      validated == _validate_context_chunks(payload.tenant, payload.context_chunks,
                                            payload.context_docs)
      upserted == _upsert_ai_decision(ai_decisions, payload, now)
      decision_ref_id ==
        upserted[decision_index(upserted, payload.tenant, payload.decision_id)].id
  IN  IF status # 200 THEN DecisionError(payload, status, [message |-> "auth"])
      ELSE IF missing_doc_ids # <<>>
      THEN DecisionError(payload, 404, [message |-> "Context documents not found",
                                        missing_doc_ids |-> missing_doc_ids])
      ELSE IF validated.missing # <<>>
      THEN DecisionError(payload, 404, [message |-> "Context chunks not found",
                                        missing_chunk_ids |-> validated.missing])
      ELSE IF validated.mismatched # {}
      THEN DecisionError(payload, 400,
                         [message |-> "Context chunks must belong to context_docs",
                          mismatched_chunk_ids |-> validated.mismatched])
      ELSE [response |-> [op |-> "ingest_decision", tenant |-> payload.tenant,
                          status |-> 200, decision_id |-> payload.decision_id,
                          context_docs_count |-> Len(payload.context_docs),
                          context_chunks_count |-> Len(payload.context_chunks),
                          created_at |-> upserted[decision_ref_id].created_at,
                          updated_at |-> upserted[decision_ref_id].updated_at],
            ai_decisions |-> upserted,
            ai_decision_context_docs |->
              _replace_ai_decision_context_docs(ai_decision_context_docs, decision_ref_id,
                                                payload.tenant, payload.context_docs),
            ai_decision_context_chunks |->
              _replace_ai_decision_context_chunks(ai_decision_context_chunks,
                                                  decision_ref_id, payload.tenant,
                                                  payload.context_chunks)]

ingest_decision(authz, payloads) ==
  /\ \E status \in authz, payload \in payloads :
       /\ response' = ingest_decision_result(status, payload).response
       /\ ai_decisions' = ingest_decision_result(status, payload).ai_decisions
       /\ ai_decision_context_docs' =
            ingest_decision_result(status, payload).ai_decision_context_docs
       /\ ai_decision_context_chunks' =
            ingest_decision_result(status, payload).ai_decision_context_chunks
  /\ UNCHANGED <<now, storage, uploads, audit_artifacts, retention_policies, legal_holds, run,
                 auth, documents, jobs, chunks, signing, runtime>>

\* The context_docs and context_chunks conditions of _query_ai_decisions: one
\* EXISTS per requested id, on the rows of tenant in the given tables
context_filter(rows, doc_links, chunk_links, tenant, context_docs, context_chunks) ==
  {rows[i].decision_id :
     i \in {j \in 1..Len(rows) :
              /\ rows[j].tenant = tenant
              /\ \A doc_id \in Range(context_docs) :
                   \E filter_docs \in doc_links :
                     /\ filter_docs.decision_ref_id = rows[j].id
                     /\ filter_docs.doc_id = doc_id
              /\ \A chunk_id \in Range(context_chunks) :
                   \E filter_chunks \in chunk_links :
                     /\ filter_chunks.decision_ref_id = rows[j].id
                     /\ filter_chunks.chunk_id = chunk_id}}

\* SELECT ... FROM ai_decisions d LEFT JOIN the context tables WHERE d.tenant = %s
\* ORDER BY d.created_at, d.id, for a request without further filters
_query_ai_decisions(tenant) ==
  LET record(d) ==
        [decision_id |-> d.decision_id, tenant |-> d.tenant, model |-> d.model,
         created_at |-> d.created_at, updated_at |-> d.updated_at,
         context_docs |-> {r.doc_id : r \in {x \in ai_decision_context_docs :
                                               x.decision_ref_id = d.id}},
         context_chunks |-> {r.chunk_id : r \in {x \in ai_decision_context_chunks :
                                                   x.decision_ref_id = d.id}}]
      matching == context_filter(ai_decisions, ai_decision_context_docs,
                                 ai_decision_context_chunks, tenant, <<>>, <<>>)
      rows == SelectSeq(ai_decisions,
                        LAMBDA d : d.tenant = tenant /\ d.decision_id \in matching)
  IN  [i \in 1..Len(rows) |-> record(rows[i])]

\* POST /v1/decisions/query
query_decisions(authz, tenants) ==
  /\ \E status \in authz, tenant \in tenants :
       response' =
         IF status # 200
         THEN [op |-> "query_decisions", tenant |-> tenant, status |-> status]
         ELSE [op |-> "query_decisions", tenant |-> tenant, status |-> 200,
               decisions |-> _query_ai_decisions(tenant)]
  /\ UNCHANGED <<now, storage, uploads, audit_artifacts, retention_policies, legal_holds, run,
                 auth, documents, jobs, chunks, ai_decisions, ai_decision_context_docs,
                 ai_decision_context_chunks, signing, runtime>>

\* The ledger before its first request
InitLedger ==
  /\ documents = [d \in LedgerDocs \cup {UnknownDoc} |-> NoDocument]
  /\ jobs = [d \in LedgerDocs \cup {UnknownDoc} |-> NoJob]
  /\ chunks = {}
  /\ ai_decisions = <<>>
  /\ ai_decision_context_docs = {}
  /\ ai_decision_context_chunks = {}
  /\ response = NoResponse

\* ------------------------------------------------------------ ingest transaction
\* POST /v1/decisions statement by statement.  get_connection opens a psycopg
\* connection without autocommit: the statements of the handler work on the
\* transaction's own copy of the tables, conn.commit() publishes it, and
\* conn.close() without a commit (an exception, a crash) discards it.
NoTxn == [pc |-> "idle"]

TxnSteps == {"upsert", "replace_docs", "replace_chunks", "commit"}

\* A connection in autocommit mode: every statement is published at once
visible_Autocommit(committed, working, pc) == working

\* What the other sessions see of a table once the statement at pc has run
visible(committed, working, pc) == IF pc = "commit" THEN working ELSE committed

\* The id RETURNING gives for the row of the transaction's payload
txn_decision_ref_id ==
  txn.ai_decisions[decision_index(txn.ai_decisions, txn.payload.tenant,
                                  txn.payload.decision_id)].id

\* require_auth, _missing_document_ids and _validate_context_chunks: a
\* rejected request raises before any write, an accepted one goes on
ingest_begin(authz, payloads) ==
  /\ txn.pc = "idle"
  /\ \E status \in authz, payload \in payloads :
       IF ingest_decision_result(status, payload).response.status # 200
       THEN /\ response' = ingest_decision_result(status, payload).response
            /\ txn' = txn
       ELSE /\ txn' = [pc |-> "upsert", payload |-> payload, at |-> now,
                       ai_decisions |-> ai_decisions,
                       ai_decision_context_docs |-> ai_decision_context_docs,
                       ai_decision_context_chunks |-> ai_decision_context_chunks]
            /\ response' = response
  /\ UNCHANGED <<now, storage, uploads, audit_artifacts, retention_policies, legal_holds, run,
                 auth, documents, jobs, chunks, ai_decisions, ai_decision_context_docs,
                 ai_decision_context_chunks, signing, gate, oidc, pubsub>>

\* One statement of the transaction, or its conn.commit()
ingest_step ==
  /\ txn.pc \in TxnSteps
  /\ txn' =
       IF txn.pc = "upsert"
       THEN [txn EXCEPT !.pc = "replace_docs",
                        !.ai_decisions = _upsert_ai_decision(@, txn.payload, txn.at)]
       ELSE IF txn.pc = "replace_docs"
       THEN [txn EXCEPT !.pc = "replace_chunks",
                        !.ai_decision_context_docs =
                          _replace_ai_decision_context_docs(@, txn_decision_ref_id,
                                                            txn.payload.tenant,
                                                            txn.payload.context_docs)]
       ELSE IF txn.pc = "replace_chunks"
       THEN [txn EXCEPT !.pc = "commit",
                        !.ai_decision_context_chunks =
                          _replace_ai_decision_context_chunks(@, txn_decision_ref_id,
                                                              txn.payload.tenant,
                                                              txn.payload.context_chunks)]
       ELSE NoTxn
  /\ LET working == IF txn.pc = "commit" THEN txn ELSE txn'
     IN  /\ ai_decisions' = visible(ai_decisions, working.ai_decisions, txn.pc)
         /\ ai_decision_context_docs' =
              visible(ai_decision_context_docs, working.ai_decision_context_docs, txn.pc)
         /\ ai_decision_context_chunks' =
              visible(ai_decision_context_chunks, working.ai_decision_context_chunks, txn.pc)
  /\ response' =
       IF txn.pc = "commit"
       THEN [op |-> "ingest_decision", tenant |-> txn.payload.tenant, status |-> 200,
             decision_id |-> txn.payload.decision_id,
             context_docs_count |-> Len(txn.payload.context_docs),
             context_chunks_count |-> Len(txn.payload.context_chunks),
             created_at |-> txn.ai_decisions[txn_decision_ref_id].created_at,
             updated_at |-> txn.ai_decisions[txn_decision_ref_id].updated_at]
       ELSE response
  /\ UNCHANGED <<now, storage, uploads, audit_artifacts, retention_policies, legal_holds, run,
                 auth, documents, jobs, chunks, signing, gate, oidc, pubsub>>

\* The handler dies or a statement raises before conn.commit(): the
\* connection is closed and the server rolls the transaction back
ingest_abort ==
  /\ txn.pc \in TxnSteps
  /\ txn' = NoTxn
  /\ response' = [op |-> "ingest_decision", tenant |-> txn.payload.tenant, status |-> 500,
                  decision_id |-> txn.payload.decision_id, at |-> txn.pc]
  /\ UNCHANGED <<now, storage, uploads, audit_artifacts, retention_policies, legal_holds, run,
                 auth, documents, jobs, chunks, ai_decisions, ai_decision_context_docs,
                 ai_decision_context_chunks, signing, gate, oidc, pubsub>>

\* ------------------------------------------------------------ InflightGate
\* InflightGate(GateLimit) shared by the threads of the processor.  A caller
\* is idle, between the two statements of try_enter ("entering"), admitted
\* ("inside"), or between the two statements of leave ("leaving"); result is
\* what its last try_enter returned.
Callers == 1..(GateLimit + 1)

NewGate(limit) ==
  [limit |-> limit, _semaphore |-> limit, _active |-> 0,
   pc |-> [c \in Callers |-> "idle"], result |-> [c \in Callers |-> "none"],
   leaves |-> [c \in Callers |-> 0]]

\* A semaphore that never runs out
acquire_Unbounded(_semaphore) == TRUE

\* self._semaphore.acquire(blocking=False)
acquire(_semaphore) == _semaphore > 0

\* try_enter, first statement: take a permit or return False
try_enter_acquire(c) ==
  /\ gate.pc[c] = "idle"
  /\ gate' = IF acquire(gate._semaphore)
             THEN [gate EXCEPT !._semaphore = @ - 1, !.pc[c] = "entering"]
             ELSE [gate EXCEPT !.result[c] = "False"]
  /\ UNCHANGED <<now, storage, uploads, audit_artifacts, retention_policies, legal_holds, run,
                 auth, ledger, signing, txn, oidc, pubsub>>

\* try_enter, second statement: with self._lock: self._active += 1; return True
try_enter_count(c) ==
  /\ gate.pc[c] = "entering"
  /\ gate' = [gate EXCEPT !._active = @ + 1, !.pc[c] = "inside", !.result[c] = "True"]
  /\ UNCHANGED <<now, storage, uploads, audit_artifacts, retention_policies, legal_holds, run,
                 auth, ledger, signing, txn, oidc, pubsub>>

\* leave, first statement: with self._lock: self._active -= 1, by a caller
\* that was admitted
leave_count(c) ==
  /\ gate.pc[c] = "inside"
  /\ gate._active > 0
  /\ gate' = [gate EXCEPT !._active = @ - 1, !.pc[c] = "leaving"]
  /\ UNCHANGED <<now, storage, uploads, audit_artifacts, retention_policies, legal_holds, run,
                 auth, ledger, signing, txn, oidc, pubsub>>

\* leave, second statement: self._semaphore.release()
leave_release(c) ==
  /\ gate.pc[c] = "leaving"
  /\ gate' = [gate EXCEPT !._semaphore = @ + 1, !.pc[c] = "idle", !.result[c] = "none"]
  /\ UNCHANGED <<now, storage, uploads, audit_artifacts, retention_policies, legal_holds, run,
                 auth, ledger, signing, txn, oidc, pubsub>>

\* ------------------------------------------------------------ _process_with_backpressure
\* A request of the processor around the gate: try_enter (two statements,
\* as above), _process_ingest_message ("inside" until it returns or raises),
\* then leave in the finally clause ("finally" until its first statement has
\* run).  leaves counts the calls of leave the request has made.

\* try_enter, first statement, at the start of a request: a permit, or
\* False and with it 429
try_entered(c) ==
  IF acquire(gate._semaphore)
  THEN [gate EXCEPT !._semaphore = @ - 1, !.pc[c] = "entering",
                    !.result[c] = "none", !.leaves[c] = 0]
  ELSE [gate EXCEPT !.result[c] = "False", !.leaves[c] = 0]

\* _process_with_backpressure up to the first statement of try_enter
_process_with_backpressure_try_enter(c) ==
  /\ gate.pc[c] = "idle"
  /\ gate.result[c] # "False"
  /\ gate' = try_entered(c)
  /\ UNCHANGED <<now, storage, uploads, audit_artifacts, retention_policies, legal_holds, run,
                 auth, ledger, signing, txn, oidc, pubsub>>

\* if not inflight_gate.try_enter(): raise HTTPException(429): the request
\* ends
_process_with_backpressure_rejects(c) ==
  /\ gate.pc[c] = "idle"
  /\ gate.result[c] = "False"
  /\ gate' = [gate EXCEPT !.result[c] = "none"]
  /\ UNCHANGED <<now, storage, uploads, audit_artifacts, retention_policies, legal_holds, run,
                 auth, ledger, signing, txn, oidc, pubsub>>

\* return _process_ingest_message(message): it returns or it raises
_process_ingest_message_ends(c, outcomes) ==
  /\ gate.pc[c] = "inside"
  /\ \E outcome \in outcomes : gate' = [gate EXCEPT !.pc[c] = "finally", !.result[c] = outcome]
  /\ UNCHANGED <<now, storage, uploads, audit_artifacts, retention_policies, legal_holds, run,
                 auth, ledger, signing, txn, oidc, pubsub>>

\* A try without finally: leave is called only when processing returned
_process_with_backpressure_leave_OnSuccessOnly(c) ==
  /\ gate.pc[c] = "finally"
  /\ gate' = IF gate.result[c] = "raised" THEN [gate EXCEPT !.pc[c] = "idle"]
             ELSE IF gate._active <= 0 THEN [gate EXCEPT !.pc[c] = "RuntimeError"]
             ELSE [gate EXCEPT !._active = @ - 1, !.pc[c] = "leaving", !.leaves[c] = @ + 1]
  /\ UNCHANGED <<now, storage, uploads, audit_artifacts, retention_policies, legal_holds, run,
                 auth, ledger, signing, txn, oidc, pubsub>>

\* finally: inflight_gate.leave(), first statement: RuntimeError when
\* _active <= 0, else _active -= 1
_process_with_backpressure_leave(c) ==
  /\ gate.pc[c] = "finally"
  /\ gate' = IF gate._active <= 0
             THEN [gate EXCEPT !.pc[c] = "RuntimeError", !.leaves[c] = @ + 1]
             ELSE [gate EXCEPT !._active = @ - 1, !.pc[c] = "leaving", !.leaves[c] = @ + 1]
  /\ UNCHANGED <<now, storage, uploads, audit_artifacts, retention_policies, legal_holds, run,
                 auth, ledger, signing, txn, oidc, pubsub>>

\* ------------------------------------------------------------ key resolver
\* services/shared/auth.py, the RS256 path: OIDC discovery, the key set and
\* their two time-bounded caches.  An upstream GET answers with a failure of
\* the connection, with text that is not JSON, with JSON that is not an
\* object, or with a JSON object; of an object the model keeps jwks_uri and
\* keys, and of a key its kid and its modulus n (None when n or e is missing).
\* A token signed with RS256 names in signed_with the modulus of its key.
_OPENID_CACHE_TTL_SECONDS == 300

JwksUrls == {"j1", "j2"}
Issuers == {"issuer"}

Jwk(kid, n) == [kid |-> kid, n |-> n]
NoJwk == Jwk(None, None)
NoBody == [jwks_uri |-> None, keys |-> <<>>]
NoEntry == [expiry |-> NULL, body |-> NoBody]

Failing(result) == [result |-> result, body |-> NoBody]
JsonObject(body) == [result |-> "json_object", body |-> body]
DiscoveryDocument(jwks_uri) == JsonObject([jwks_uri |-> jwks_uri, keys |-> <<>>])
KeySet(keys) == JsonObject([jwks_uri |-> None, keys |-> keys])

\* urlopen raised, json.loads raised, or json.loads returned something that
\* is not a dict
UpstreamFailures ==
  {Failing("network_error"), Failing("timeout"), Failing("invalid_json"),
   Failing("json_array")}

NewResolver ==
  [time |-> time_now, sleeps |-> 0,
   _openid_cache |-> [issuer \in Issuers |-> NoEntry],
   _jwks_cache |-> [jwks_url \in JwksUrls |-> NoEntry],
   call |-> [op |-> None]]

\* What a function of the resolver does: it returns (raised "none") or
\* raises an HTTPException of a status or another exception; cache is the
\* cache it leaves and fetched the URLs it sent a GET to
Outcome(raised, status, value, cache, fetched) ==
  [raised |-> raised, status |-> status, value |-> value, cache |-> cache,
   fetched |-> fetched]

\* issuer.rstrip("/")
rstrip_slash(issuer) == IF issuer = "issuer/" THEN "issuer" ELSE issuer

\* The status _fetch_json raises, or 200 and the body it returns
_fetch_json(upstream) ==
  IF upstream.result \in {"network_error", "timeout"} THEN [status |-> 503, body |-> NoBody]
  ELSE IF upstream.result = "invalid_json" THEN [status |-> 503, body |-> NoBody]
  ELSE IF upstream.result # "json_object" THEN [status |-> 503, body |-> NoBody]
  ELSE [status |-> 200, body |-> upstream.body]

\* _discover_jwks_url at time `at` against an openid-configuration endpoint
\* that answers `upstream`.  body.get on JSON that is not an object raises
\* AttributeError.
_discover_jwks_url(issuer, cache, at, upstream) ==
  LET normalized_issuer == rstrip_slash(issuer)
      cached == cache[normalized_issuer]
      url == normalized_issuer \o "/.well-known/openid-configuration"
  IN IF issuer = None THEN Outcome("HTTPException", 503, None, cache, <<>>)
     ELSE IF cached.expiry # NULL /\ cached.expiry > at /\ cached.body.jwks_uri # None
       THEN Outcome("none", 200, cached.body.jwks_uri, cache, <<>>)
     ELSE IF upstream.result \in {"network_error", "timeout"}
       THEN Outcome("HTTPException", 503, None, cache, <<url>>)
     ELSE IF upstream.result = "invalid_json"
       THEN Outcome("HTTPException", 503, None, cache, <<url>>)
     ELSE IF upstream.result # "json_object"
       THEN Outcome("AttributeError", NULL, None, cache, <<url>>)
     ELSE IF upstream.body.jwks_uri = None
       THEN Outcome("HTTPException", 503, None, cache, <<url>>)
     ELSE Outcome("none", 200, upstream.body.jwks_uri,
                  [cache EXCEPT ![normalized_issuer] =
                     [expiry |-> at + _OPENID_CACHE_TTL_SECONDS, body |-> upstream.body]],
                  <<url>>)

\* An entry of the key-set cache that never expires
fresh_Forever(cached, at) == cached.expiry # NULL

\* cached and cached[0] > now
fresh(cached, at) == cached.expiry # NULL /\ cached.expiry > at

\* The key of a key set that _resolve_signing_jwk picks for a kid, or the
\* status it raises
pick_jwk(keys, kid) ==
  IF keys = <<>> THEN [status |-> 503, jwk |-> NoJwk]
  ELSE IF kid # None
    THEN IF \E i \in 1..Len(keys) : keys[i].kid = kid
         THEN [status |-> 200,
               jwk |-> keys[CHOOSE i \in 1..Len(keys) :
                              /\ keys[i].kid = kid
                              /\ \A j \in 1..(i - 1) : keys[j].kid # kid]]
         ELSE [status |-> 401, jwk |-> NoJwk]
  ELSE IF Len(keys) = 1 THEN [status |-> 200, jwk |-> keys[1]]
  ELSE [status |-> 401, jwk |-> NoJwk]

\* _resolve_signing_jwk at time `at` against a key-set endpoint that answers
\* `upstream`
_resolve_signing_jwk(jwks_url, kid, cache, at, upstream) ==
  LET cached == cache[jwks_url]
      fetch == _fetch_json(upstream)
      jwks == IF fresh(cached, at) THEN cached.body ELSE fetch.body
      picked == pick_jwk(jwks.keys, kid)
      fetched == IF fresh(cached, at) THEN <<>> ELSE <<jwks_url>>
      filled ==
        IF fresh(cached, at) THEN cache
        ELSE [cache EXCEPT ![jwks_url] =
                [expiry |-> at + _OPENID_CACHE_TTL_SECONDS, body |-> jwks]]
  IN IF ~fresh(cached, at) /\ fetch.status # 200
       THEN Outcome("HTTPException", fetch.status, NoJwk, cache, fetched)
     ELSE IF picked.status # 200
       THEN Outcome("HTTPException", picked.status, NoJwk, filled, fetched)
     ELSE Outcome("none", 200, picked.jwk, filled, fetched)

\* The status _verify_rs256_signature raises once it has the key, or 200
verify_with_jwk(token, jwk) ==
  IF jwk.n = None THEN 401
  ELSE IF token.signed_with # jwk.n THEN 401
  ELSE 200

\* The time claims checked with iat rejected from now + skew on
registered_claims_detail_IatAtSkew(claims, config) ==
  IF claims.exp.type # "int" THEN "Invalid token: missing exp"
  ELSE IF time_now > claims.exp.num + skew THEN "Invalid token: expired"
  ELSE IF claims.nbf.type = "int" /\ time_now + skew < claims.nbf.num
    THEN "Invalid token: not yet valid"
  ELSE IF claims.iat.type = "int" /\ claims.iat.num >= time_now + skew
    THEN "Invalid token: issued in future"
  ELSE None

\* The detail of the HTTPException _verify_registered_claims raises for the
\* time claims, or None
registered_claims_detail(claims, config) ==
  IF claims.exp.type # "int" THEN "Invalid token: missing exp"
  ELSE IF time_now > claims.exp.num + skew THEN "Invalid token: expired"
  ELSE IF claims.nbf.type = "int" /\ time_now + skew < claims.nbf.num
    THEN "Invalid token: not yet valid"
  ELSE IF claims.iat.type = "int" /\ claims.iat.num > time_now + skew
    THEN "Invalid token: issued in future"
  ELSE None

\* except HTTPException: raise / except Exception: raise HTTPException(401)
except_Exception(raised, status) == IF raised = "HTTPException" THEN status ELSE 401

\* _decode_claims with the key resolved through discovery and the key set:
\* the status it raises (200 when it returns the claims), the detail of a
\* failed time claim, the URL of the key set, the two caches it leaves and
\* the URLs it fetched
_decode_claims_resolving(token, config, state, discovery, key_set) ==
  LET at == state.time
      algorithm == token.alg
      allowed_algorithms ==
        IF config.auth_algorithms = {} THEN {"RS256"} ELSE config.auth_algorithms
      Answer(status, detail, jwks_url, _openid_cache, _jwks_cache, fetched) ==
        [status |-> status, detail |-> detail, jwks_url |-> jwks_url,
         _openid_cache |-> _openid_cache, _jwks_cache |-> _jwks_cache, fetched |-> fetched]
      Rejected(status) ==
        Answer(status, None, None, state._openid_cache, state._jwks_cache, <<>>)
      discovered ==
        IF config.auth_jwks_url # None
        THEN Outcome("none", 200, config.auth_jwks_url, state._openid_cache, <<>>)
        ELSE _discover_jwks_url(config.auth_issuer, state._openid_cache, at, discovery)
      resolved ==
        _resolve_signing_jwk(discovered.value, token.kid, state._jwks_cache, at, key_set)
      claims_status == _verify_registered_claims(token.claims, config)
      claims_detail == registered_claims_detail(token.claims, config)
  IN IF _decode_unverified(token) # 200 THEN Rejected(_decode_unverified(token))
     ELSE IF algorithm \notin allowed_algorithms THEN Rejected(401)
     ELSE IF algorithm \in {"HS256", "HS512"}
       THEN IF config.auth_jwt_shared_secret = None THEN Rejected(503)
            ELSE IF _verify_hmac_signature(token, algorithm,
                                           config.auth_jwt_shared_secret) # 200
              THEN Rejected(401)
            ELSE Answer(claims_status, claims_detail, None, state._openid_cache,
                        state._jwks_cache, <<>>)
     ELSE IF algorithm # "RS256" THEN Rejected(401)
     ELSE IF discovered.raised # "none"
       THEN Answer(except_Exception(discovered.raised, discovered.status), None, None,
                   discovered.cache, state._jwks_cache, discovered.fetched)
     ELSE IF resolved.raised # "none"
       THEN Answer(except_Exception(resolved.raised, resolved.status), None,
                   discovered.value, discovered.cache, resolved.cache,
                   discovered.fetched \o resolved.fetched)
     ELSE IF verify_with_jwk(token, resolved.value) # 200
       THEN Answer(401, None, discovered.value, discovered.cache, resolved.cache,
                   discovered.fetched \o resolved.fetched)
     ELSE Answer(claims_status, claims_detail, discovered.value, discovered.cache,
                 resolved.cache, discovered.fetched \o resolved.fetched)

\* One call of _decode_claims on a token under the configuration of the
\* process, while the two endpoints answer as `discovery` and `key_set` say
_decode_claims_call(tokens, discoveries, key_sets) ==
  /\ \E token \in tokens, discovery \in discoveries, key_set \in key_sets :
       LET answer == _decode_claims_resolving(token, auth.config, oidc, discovery, key_set)
       IN oidc' = [oidc EXCEPT !._openid_cache = answer._openid_cache,
                               !._jwks_cache = answer._jwks_cache,
                               !.call = [op |-> "_decode_claims", token |-> token,
                                         discovery |-> discovery, key_set |-> key_set,
                                         status |-> answer.status, detail |-> answer.detail,
                                         jwks_url |-> answer.jwks_url,
                                         fetched |-> answer.fetched]]
  /\ UNCHANGED <<now, storage, uploads, audit_artifacts, retention_policies, legal_holds, run,
                 auth, ledger, signing, txn, gate, pubsub>>

\* One call of _resolve_signing_jwk for a URL and a kid, while the endpoint
\* of the URL answers as `key_set` says
_resolve_signing_jwk_call(jwks_urls, kids, key_sets) ==
  /\ \E jwks_url \in jwks_urls, kid \in kids, key_set \in key_sets :
       LET outcome == _resolve_signing_jwk(jwks_url, kid, oidc._jwks_cache, oidc.time, key_set)
       IN oidc' = [oidc EXCEPT !._jwks_cache = outcome.cache,
                               !.call = [op |-> "_resolve_signing_jwk", jwks_url |-> jwks_url,
                                         kid |-> kid, key_set |-> key_set,
                                         raised |-> outcome.raised,
                                         status |-> outcome.status, jwk |-> outcome.value,
                                         fetched |-> outcome.fetched]]
  /\ UNCHANGED <<now, storage, uploads, audit_artifacts, retention_policies, legal_holds, run,
                 auth, ledger, signing, txn, gate, pubsub>>

\* time.time() moves on between two calls
sleep(seconds) ==
  /\ oidc.sleeps < MaxSleeps
  /\ \E s \in seconds : oidc' = [oidc EXCEPT !.time = @ + s, !.sleeps = @ + 1]
  /\ UNCHANGED <<now, storage, uploads, audit_artifacts, retention_policies, legal_holds, run,
                 auth, ledger, signing, txn, gate, pubsub>>

\* ------------------------------------------------------------ require_auth, check by check
\* require_auth as the sequence of its checks.  auth.passed lists the checks
\* that have returned, auth.verified_with is the key the signature check
\* used, and oidc keeps what the key resolver fetched and cached.
Checks == <<"algorithm", "signature", "registered_claims", "sub", "tenant">>

\* Any of the checks raises: the request is answered with the exception
raise(status) == [auth EXCEPT !.pc = "answered", !.response = HTTPException(status)]

\* A check returns: the call moves on to the next one
passes(check) == [auth EXCEPT !.pc = check, !.passed = Append(@, check)]

\* A first check that lets every algorithm through
require_auth_algorithm_AnyAlgorithm ==
  /\ auth.pc = "request"
  /\ auth' =
       IF ~auth.config.auth_enabled
         THEN [auth EXCEPT !.pc = "answered",
                           !.response = [status |-> 200, returned |-> "None",
                                         subject |-> None]]
       ELSE IF lower(auth.request.scheme) # "bearer" THEN raise(401)
       ELSE IF _decode_unverified(auth.request.token) # 200 THEN raise(401)
       ELSE passes("algorithm")
  /\ UNCHANGED <<now, storage, uploads, audit_artifacts, retention_policies, legal_holds, run,
                 ledger, signing, runtime>>

\* require_auth up to the algorithm check of _decode_claims: auth_enabled,
\* _extract_bearer_token, _decode_unverified, algorithm in allowed_algorithms
require_auth_algorithm ==
  /\ auth.pc = "request"
  /\ LET algorithm == auth.request.token.alg
         allowed_algorithms ==
           IF auth.config.auth_algorithms = {} THEN {"RS256"}
           ELSE auth.config.auth_algorithms
     IN auth' =
          IF ~auth.config.auth_enabled
            THEN [auth EXCEPT !.pc = "answered",
                              !.response = [status |-> 200, returned |-> "None",
                                            subject |-> None]]
          ELSE IF lower(auth.request.scheme) # "bearer" THEN raise(401)
          ELSE IF _decode_unverified(auth.request.token) # 200 THEN raise(401)
          ELSE IF algorithm \notin allowed_algorithms THEN raise(401)
          ELSE passes("algorithm")
  /\ UNCHANGED <<now, storage, uploads, audit_artifacts, retention_policies, legal_holds, run,
                 ledger, signing, runtime>>

\* The signature branch of _decode_claims: the shared secret for an HS
\* algorithm, the key of the key set for RS256 (found through
\* auth_jwks_url or discovery, while the two endpoints answer as `discovery`
\* and `key_set` say), 401 for any other allowed algorithm
require_auth_signature(discoveries, key_sets) ==
  /\ auth.pc = "algorithm"
  /\ \E discovery \in discoveries, key_set \in key_sets :
       LET token == auth.request.token
           config == auth.config
           discovered ==
             IF config.auth_jwks_url # None
             THEN Outcome("none", 200, config.auth_jwks_url, oidc._openid_cache, <<>>)
             ELSE _discover_jwks_url(config.auth_issuer, oidc._openid_cache, oidc.time,
                                     discovery)
           resolved ==
             _resolve_signing_jwk(discovered.value, token.kid, oidc._jwks_cache, oidc.time,
                                  key_set)
           fetches(fetched, openid, jwks) ==
             [oidc EXCEPT !._openid_cache = openid, !._jwks_cache = jwks,
                          !.call = [op |-> "require_auth", discovery |-> discovery,
                                    key_set |-> key_set, fetched |-> fetched]]
       IN  IF token.alg \in {"HS256", "HS512"}
           THEN /\ auth' =
                     IF config.auth_jwt_shared_secret = None THEN raise(503)
                     ELSE IF _verify_hmac_signature(token, token.alg,
                                                    config.auth_jwt_shared_secret) # 200
                       THEN [raise(401) EXCEPT
                               !.verified_with = config.auth_jwt_shared_secret]
                     ELSE [passes("signature") EXCEPT
                             !.verified_with = config.auth_jwt_shared_secret]
                /\ oidc' = fetches(<<>>, oidc._openid_cache, oidc._jwks_cache)
           ELSE IF token.alg # "RS256"
           THEN /\ auth' = raise(401)
                /\ oidc' = fetches(<<>>, oidc._openid_cache, oidc._jwks_cache)
           ELSE IF discovered.raised # "none"
           THEN /\ auth' = raise(except_Exception(discovered.raised, discovered.status))
                /\ oidc' = fetches(discovered.fetched, discovered.cache, oidc._jwks_cache)
           ELSE IF resolved.raised # "none"
           THEN /\ auth' = raise(except_Exception(resolved.raised, resolved.status))
                /\ oidc' = fetches(discovered.fetched \o resolved.fetched, discovered.cache,
                                   resolved.cache)
           ELSE /\ auth' =
                     IF verify_with_jwk(token, resolved.value) # 200
                     THEN [raise(401) EXCEPT !.verified_with = resolved.value.n]
                     ELSE [passes("signature") EXCEPT !.verified_with = resolved.value.n]
                /\ oidc' = fetches(discovered.fetched \o resolved.fetched, discovered.cache,
                                   resolved.cache)
  /\ UNCHANGED <<now, storage, uploads, audit_artifacts, retention_policies, legal_holds, run,
                 ledger, signing, txn, gate, pubsub>>

\* _verify_registered_claims(claims, config), the last statement of
\* _decode_claims before it returns the claims
require_auth_registered_claims ==
  /\ auth.pc = "signature"
  /\ auth' =
       IF _verify_registered_claims(auth.request.token.claims, auth.config) # 200
       THEN raise(_verify_registered_claims(auth.request.token.claims, auth.config))
       ELSE passes("registered_claims")
  /\ UNCHANGED <<now, storage, uploads, audit_artifacts, retention_policies, legal_holds, run,
                 ledger, signing, runtime>>

\* principal = AuthPrincipal(subject=str(claims.get("sub") or ""), ...);
\* if not principal.subject: raise 401
require_auth_sub ==
  /\ auth.pc = "registered_claims"
  /\ auth' =
       IF str_or_empty(auth.request.token.claims.sub) = None THEN raise(401)
       ELSE passes("sub")
  /\ UNCHANGED <<now, storage, uploads, audit_artifacts, retention_policies, legal_holds, run,
                 ledger, signing, runtime>>

\* _authorize_tenant(principal, tenant, config); return principal
require_auth_tenant ==
  /\ auth.pc = "sub"
  /\ auth' =
       IF _authorize_tenant(auth.request.token.claims, auth.tenant, auth.config) # 200
       THEN raise(_authorize_tenant(auth.request.token.claims, auth.tenant, auth.config))
       ELSE [passes("tenant") EXCEPT
               !.pc = "answered",
               !.response = [status |-> 200, returned |-> "AuthPrincipal",
                             subject |-> str_or_empty(auth.request.token.claims.sub)]]
  /\ UNCHANGED <<now, storage, uploads, audit_artifacts, retention_policies, legal_holds, run,
                 ledger, signing, runtime>>

\* ------------------------------------------------------------ dead-letter replay
\* The bytes of a dead-letter message: not JSON, JSON that is not an object,
\* or an object with or without an "event".  A set of fields validates as an
\* IngestMessage when it has its id (and with it the other required fields).
NoEvent == [type |-> "absent", id |-> None]
NotJson == [json |-> "not_json", id |-> None, event |-> NoEvent]
JsonArray == [json |-> "array", id |-> None, event |-> NoEvent]
Direct(id) == [json |-> "object", id |-> id, event |-> NoEvent]
Wrapped(id) == [json |-> "object", id |-> None, event |-> [type |-> "object", id |-> id]]

DlqData ==
  {NotJson, JsonArray, Direct("d1"), Wrapped("d2"), Wrapped(None)}

NewPubSub ==
  [dlq |-> <<>>, sent |-> 0, topic |-> <<>>, replays |-> 0, call |-> [op |-> None]]

\* IngestMessage.model_validate(fields)
model_validate(fields) ==
  IF fields.id = None THEN [raised |-> "ValidationError", id |-> None]
  ELSE [raised |-> None, id |-> fields.id]

\* extract_ingest_message: the "event" of the payload when it is an object,
\* the payload itself otherwise
extract_ingest_message(payload) ==
  IF payload.event.type = "object" THEN model_validate(payload.event)
  ELSE model_validate(payload)

\* json.loads, then extract_ingest_message; payload.get raises
\* AttributeError on JSON that is not an object
parse_ingest_message_from_dlq(raw_data) ==
  IF raw_data.json = "not_json" THEN [raised |-> "JSONDecodeError", id |-> None]
  ELSE IF raw_data.json # "object" THEN [raised |-> "AttributeError", id |-> None]
  ELSE extract_ingest_message(raw_data)

\* A message reaches the dead-letter subscription: the processor's
\* _publish_dlq wraps the event, Pub/Sub dead-letters the bytes as they are
dead_letter(datas) ==
  /\ pubsub.sent < MaxDlq
  /\ \E data \in datas :
       pubsub' = [pubsub EXCEPT
                    !.sent = @ + 1,
                    !.dlq = Append(@, [message_id |-> pubsub.sent + 1,
                                       ack_id |-> pubsub.sent + 1, data |-> data])]
  /\ UNCHANGED <<now, storage, uploads, audit_artifacts, retention_policies, legal_holds, run,
                 auth, ledger, signing, txn, gate, oidc>>

\* The body of the loop of replay_dlq that adds the ack id before it
\* publishes
replayed_AckFirst(item, publish_ok) ==
  parse_ingest_message_from_dlq(item.data).raised = None

\* The body of the loop of replay_dlq returns without an exception: the
\* message parsed and _publish_ingest_message returned
replayed(item, publish_ok) ==
  /\ parse_ingest_message_from_dlq(item.data).raised = None
  /\ publish_ok[item.message_id]

\* POST /v1/admin/replay-dlq once require_auth and _require_admin_api_key
\* have returned.  pull gives the first max_messages messages of the
\* subscription or raises; every publish and the acknowledge succeed or raise.
replay_dlq(requested) ==
  /\ pubsub.replays < MaxReplays
  /\ \E max_messages \in requested, pull_ok \in BOOLEAN, ack_ok \in BOOLEAN,
        publish_ok \in [1..MaxDlq -> BOOLEAN] :
       LET n == IF pull_ok THEN Min(max_messages, Len(pubsub.dlq)) ELSE 0
           received == SubSeq(pubsub.dlq, 1, n)
           done == SelectSeq(received, LAMBDA item : replayed(item, publish_ok))
           published ==
             SelectSeq(received,
                       LAMBDA item : /\ parse_ingest_message_from_dlq(item.data).raised = None
                                     /\ publish_ok[item.message_id])
           ack_ids == [i \in 1..Len(done) |-> done[i].ack_id]
           replayed_doc_ids ==
             [i \in 1..Len(done) |-> parse_ingest_message_from_dlq(done[i].data).id]
           failed == Len(received) - Len(done)
           call ==
             [op |-> "replay_dlq", requested |-> max_messages, before |-> pubsub.dlq,
              received |-> received, publish_ok |-> publish_ok, ack_ok |-> ack_ok]
       IN  /\ \A id \in 1..MaxDlq :
                id \notin {received[i].message_id : i \in 1..n} => publish_ok[id]
           /\ IF ~pull_ok
              THEN /\ ack_ok
                   /\ pubsub' = [pubsub EXCEPT
                                   !.replays = @ + 1,
                                   !.call = call @@ [status |-> 502,
                                                     detail |-> "Unable to read DLQ subscription"]]
              ELSE IF ack_ids # <<>> /\ ~ack_ok
              THEN pubsub' = [pubsub EXCEPT
                                !.replays = @ + 1,
                                !.topic = @ \o [i \in 1..Len(published) |->
                                                  parse_ingest_message_from_dlq(
                                                    published[i].data).id],
                                !.call = call @@ [status |-> 502,
                                                  detail |-> "DLQ replay ack failed"]]
              ELSE /\ ack_ids = <<>> => ack_ok
                   /\ pubsub' = [pubsub EXCEPT
                                   !.replays = @ + 1,
                                   !.topic = @ \o [i \in 1..Len(published) |->
                                                     parse_ingest_message_from_dlq(
                                                       published[i].data).id],
                                   !.dlq = SelectSeq(@, LAMBDA item :
                                                          item.ack_id \notin Range(ack_ids)),
                                   !.call = call @@ [status |-> 200, detail |-> None,
                                                     pulled |-> Len(received),
                                                     replayed |-> Len(ack_ids),
                                                     acked |-> Len(ack_ids),
                                                     failed |-> failed,
                                                     replayed_doc_ids |-> replayed_doc_ids]]
  /\ UNCHANGED <<now, storage, uploads, audit_artifacts, retention_policies, legal_holds, run,
                 auth, ledger, signing, txn, gate, oidc>>

\* ------------------------------------------------------------ process_pubsub
\* POST /v1/process/pubsub.  A request without an Authorization header has
\* scheme None; the tenant of an envelope is the tenant of its message.

\* request.headers.get("authorization", "")
auth_header(request) == request.scheme

\* base64, json.loads and IngestMessage.model_validate of envelope.message.data
decode_envelope(envelope) ==
  IF envelope.data.json = "not_json" THEN [raised |-> "JSONDecodeError", id |-> None]
  ELSE IF envelope.data.json # "object" THEN [raised |-> "ValidationError", id |-> None]
  ELSE model_validate(envelope.data)

\* What require_pubsub_push_auth answers: the token is verified as
\* require_auth verifies it, against the push audiences, and its email claim
\* is matched against the allowed service accounts
require_pubsub_push_auth(request, config) ==
  LET push_config == [config EXCEPT !.auth_audiences = config.pubsub_push_audiences]
  IN IF lower(request.scheme) # "bearer" THEN HTTPException(401)
     ELSE IF _decode_claims(request.token, push_config) # 200
       THEN HTTPException(_decode_claims(request.token, push_config))
     ELSE IF str_or_empty(request.token.claims.sub) = None THEN HTTPException(401)
     ELSE IF /\ config.pubsub_push_service_accounts # {}
             /\ str_or_empty(request.token.claims.email)
                  \notin config.pubsub_push_service_accounts
       THEN HTTPException(403)
     ELSE [status |-> 200, returned |-> "AuthPrincipal",
           subject |-> str_or_empty(request.token.claims.sub)]

\* process_pubsub that tries the push allow-lists whenever require_auth
\* fails, enabled or not
process_pubsub_authenticate_PushAuthAlways(envelope, request, config) ==
  IF decode_envelope(envelope).raised # None THEN 400
  ELSE IF config.auth_enabled
          /\ (~config.auth_allow_unauthenticated_pubsub \/ auth_header(request) # None)
    THEN IF require_auth(request, config, envelope.tenant).returned # "raised" THEN 200
         ELSE IF auth_header(request) = None
           THEN require_auth(request, config, envelope.tenant).status
         ELSE require_pubsub_push_auth(request, config).status
  ELSE 200

\* The status process_pubsub raises before it calls
\* _process_with_backpressure, or 200 when it calls it
process_pubsub_authenticate(envelope, request, config) ==
  IF decode_envelope(envelope).raised # None THEN 400
  ELSE IF config.auth_enabled
          /\ (~config.auth_allow_unauthenticated_pubsub \/ auth_header(request) # None)
    THEN IF require_auth(request, config, envelope.tenant).returned # "raised" THEN 200
         ELSE IF auth_header(request) = None \/ ~config.pubsub_push_auth_enabled
           THEN require_auth(request, config, envelope.tenant).status
         ELSE require_pubsub_push_auth(request, config).status
  ELSE 200

\* process_pubsub up to the first statement of try_enter
process_pubsub(c, calls) ==
  /\ gate.pc[c] = "idle"
  /\ gate.result[c] # "False"
  /\ \E call \in calls :
       LET status == process_pubsub_authenticate(call.envelope, call.request, call.config)
       IN /\ auth' = [pc |-> "process_pubsub", caller |-> c, envelope |-> call.envelope,
                      request |-> call.request, config |-> call.config, status |-> status]
          /\ gate' = IF status # 200 THEN gate ELSE try_entered(c)
  /\ UNCHANGED <<now, storage, uploads, audit_artifacts, retention_policies, legal_holds, run,
                 ledger, signing, txn, oidc, pubsub>>

InitRuntime ==
  /\ txn = NoTxn
  /\ gate = NewGate(GateLimit)
  /\ oidc = NewResolver
  /\ pubsub = NewPubSub

\* ------------------------------------------------------------ signed artifacts
\* The JSON documents export, bundle and package write to the reports bucket
\* and POST /v1/decisions/verify reads back.  A document is a function from
\* its top-level keys to JSON values; a datetime exists only before
\* serialization.  sha256 and HMAC are taken to be free of collisions: a
\* digest is written as its algorithm, its key and the bytes it was taken of.
Datetime(value) == [type |-> "datetime", str |-> None, num |-> value, list |-> <<>>]

TrailerKeys == {"report_hash_sha256", "signature_alg", "signature_key_id", "signature"}

\* Every top-level key of the model, in the order sort_keys=True puts them
SortedKeys ==
  <<"decisions", "generated_at", "note", "report_hash_sha256", "signature",
    "signature_alg", "signature_key_id", "tenant">>

NoReport == [k \in {} |-> Absent]

\* value.isoformat()
_json_default(value) == "2026-01-0" \o ToString(value.num) \o "T00:00:00+00:00"

\* json.dumps that writes every value the same
dumps_value_Opaque(value) == "null"

\* json.dumps of one value, with default=_json_default
dumps_value(value) ==
  IF value.type = "str" THEN "\"" \o value.str \o "\""
  ELSE IF value.type = "int" THEN ToString(value.num)
  ELSE IF value.type = "datetime" THEN "\"" \o _json_default(value) \o "\""
  ELSE "null"

RECURSIVE dumps_items(_, _, _)
dumps_items(payload, keys, first) ==
  IF keys = <<>> THEN ""
  ELSE IF Head(keys) \notin DOMAIN payload THEN dumps_items(payload, Tail(keys), first)
  ELSE (IF first THEN "" ELSE ",") \o "\"" \o Head(keys) \o "\":"
       \o dumps_value(payload[Head(keys)]) \o dumps_items(payload, Tail(keys), FALSE)

\* json.dumps(payload, ensure_ascii=True, separators=(",", ":"), sort_keys=True,
\*            default=_json_default)
_canonical_json_bytes(payload) == "{" \o dumps_items(payload, SortedKeys, TRUE) \o "}"

_sha256_json(payload) == "sha256(" \o _canonical_json_bytes(payload) \o ")"

_hmac_sha256_b64(secret, payload) ==
  "hmac-sha256(" \o secret \o "," \o _canonical_json_bytes(payload) \o ")"

\* json.loads(_serialize_json_payload(payload)): what a reader of the stored
\* bytes gets back, a datetime as the string _json_default made of it
stored_json(payload) ==
  [k \in DOMAIN payload |->
     IF payload[k].type = "datetime" THEN Str(_json_default(payload[k])) ELSE payload[k]]

\* export_payload of export_decisions
export_payload(tenant, decisions, generated_at) ==
  [k \in {"tenant", "decisions", "generated_at"} |->
     IF k = "tenant" THEN Str(tenant)
     ELSE IF k = "decisions" THEN Str(decisions)
     ELSE Datetime(generated_at)]

\* export_document: the payload and its four trailer fields
export_document(payload, config) ==
  LET report_hash == _sha256_json(payload)
      signed == config.audit_report_signing_key # None
      trailer ==
        [k \in TrailerKeys |->
           IF k = "report_hash_sha256" THEN Str(report_hash)
           ELSE IF k = "signature_alg"
             THEN IF signed THEN Str("hmac-sha256") ELSE Str("none")
           ELSE IF k = "signature_key_id"
             THEN IF signed /\ config.audit_report_signing_key_id # None
                  THEN Str(config.audit_report_signing_key_id) ELSE Absent
           ELSE IF signed
             THEN Str(_hmac_sha256_b64(config.audit_report_signing_key, payload))
           ELSE Absent]
  IN  [k \in DOMAIN payload \cup TrailerKeys |->
         IF k \in TrailerKeys THEN trailer[k] ELSE payload[k]]

\* document.get(key)
get(document, key) == IF key \in DOMAIN document THEN document[key] ELSE Absent

\* dict(document) without the four popped keys
unsigned_payload(document) == [k \in DOMAIN document \ TrailerKeys |-> document[k]]

\* str(document.get("signature_alg") or "none")
signature_alg_of(document) ==
  LET raw == get(document, "signature_alg")
  IN  IF raw.type = "str" /\ raw.str # None THEN raw.str
      ELSE IF raw.type = "int" /\ raw.num # 0 THEN ToString(raw.num)
      ELSE "none"

\* str(document.get(key) or "") or None
str_or_none(document, key) ==
  LET raw == get(document, key)
  IN  IF raw.type = "str" THEN raw.str
      ELSE IF raw.type = "int" /\ raw.num # 0 THEN ToString(raw.num)
      ELSE None

\* The signature branch of verify_decision_artifact: signature_valid and the
\* errors it appends
signature_check(document, config) ==
  LET signature_alg == signature_alg_of(document)
      signature == str_or_none(document, "signature")
  IN  IF signature_alg = "none" THEN [valid |-> signature = None, errors |-> <<>>]
      ELSE IF signature_alg = "hmac-sha256"
      THEN IF config.audit_report_signing_key = None
           THEN [valid |-> FALSE, errors |-> <<"signing_key_not_configured">>]
           ELSE IF signature = None
           THEN [valid |-> FALSE, errors |-> <<"missing_signature">>]
           ELSE IF signature = _hmac_sha256_b64(config.audit_report_signing_key,
                                                unsigned_payload(document))
           THEN [valid |-> TRUE, errors |-> <<>>]
           ELSE [valid |-> FALSE, errors |-> <<"signature_mismatch">>]
      ELSE [valid |-> FALSE, errors |-> <<"unsupported_signature_alg">>]

\* verify_decision_artifact without the pop of the trailer fields
AIDecisionVerifyResponse_NoStrip(document, config, request) ==
  LET stored_hash == get(document, "report_hash_sha256")
      computed_hash == _sha256_json(document)
      hash_match == /\ stored_hash.type = "str"
                    /\ stored_hash.str # None
                    /\ computed_hash = stored_hash.str
      signature == signature_check(document, config)
  IN  [computed_report_hash_sha256 |-> computed_hash,
       hash_match |-> hash_match,
       signature_alg |-> signature_alg_of(document),
       signature_valid |-> signature.valid,
       verified |-> hash_match /\ signature.valid,
       errors |-> (IF hash_match THEN <<>> ELSE <<"hash_mismatch">>) \o signature.errors,
       request |-> request]

\* What verify_decision_artifact returns for the document it loaded
AIDecisionVerifyResponse(document, config, request) ==
  LET stored_hash == get(document, "report_hash_sha256")
      computed_hash == _sha256_json(unsigned_payload(document))
      hash_match == /\ stored_hash.type = "str"
                    /\ stored_hash.str # None
                    /\ computed_hash = stored_hash.str
      expected_hash_match ==
        \/ request.expected_report_hash_sha256 = None
        \/ computed_hash = request.expected_report_hash_sha256
      signature == signature_check(document, config)
      expected_signature_key_match ==
        \/ request.expected_signature_key_id = None
        \/ str_or_none(document, "signature_key_id") = request.expected_signature_key_id
  IN  [computed_report_hash_sha256 |-> computed_hash,
       hash_match |-> hash_match,
       signature_alg |-> signature_alg_of(document),
       signature_valid |-> signature.valid,
       verified |-> /\ hash_match /\ signature.valid
                    /\ expected_hash_match /\ expected_signature_key_match,
       errors |-> (IF hash_match THEN <<>> ELSE <<"hash_mismatch">>)
                  \o (IF expected_hash_match THEN <<>> ELSE <<"expected_hash_mismatch">>)
                  \o signature.errors
                  \o (IF expected_signature_key_match THEN <<>>
                      ELSE <<"signature_key_id_mismatch">>),
       request |-> request]

NoVerification == [verified |-> FALSE, errors |-> <<"none">>]

\* POST /v1/decisions/export: sign the payload and write it where no object is
write_export_document(tenants, decisions) ==
  /\ report_document = NoReport
  /\ \E tenant \in tenants, d \in decisions :
       /\ report_document' =
            stored_json(export_document(export_payload(tenant, d, now), report_config))
       /\ report_written' = report_document'
  /\ UNCHANGED <<now, storage, uploads, audit_artifacts, retention_policies, legal_holds, run,
                 auth, ledger, report_config, verification, runtime>>

\* The stored bytes are overwritten from outside: one top-level key gets
\* another value, a new key is added, or a key is removed
alter_stored_document(alterations) ==
  /\ report_document # NoReport
  /\ \E a \in alterations :
       /\ report_document' =
            [k \in (DOMAIN report_document \cup {a.key}) \ (IF a.remove THEN {a.key} ELSE {})
               |-> IF k = a.key THEN a.value ELSE report_document[k]]
       /\ report_document' # report_document
  /\ UNCHANGED <<now, storage, uploads, audit_artifacts, retention_policies, legal_holds, run,
                 auth, ledger, report_config, report_written, verification, runtime>>

\* Whoever overwrites the stored bytes recomputes report_hash_sha256 over the
\* payload as it now stands, the way export and the verifier compute it
recompute_report_hash ==
  /\ report_document # NoReport
  /\ report_document' =
       [k \in DOMAIN report_document \cup {"report_hash_sha256"} |->
          IF k = "report_hash_sha256"
          THEN Str(_sha256_json(unsigned_payload(report_document)))
          ELSE report_document[k]]
  /\ report_document' # report_document
  /\ UNCHANGED <<now, storage, uploads, audit_artifacts, retention_policies, legal_holds, run,
                 auth, ledger, report_config, report_written, verification, runtime>>

\* POST /v1/decisions/verify on the stored document
verify_decision_artifact(requests) ==
  /\ report_document # NoReport
  /\ \E request \in requests :
       verification' = AIDecisionVerifyResponse(report_document, report_config, request)
  /\ UNCHANGED <<now, storage, uploads, audit_artifacts, retention_policies, legal_holds, run,
                 auth, ledger, report_config, report_written, report_document, runtime>>

\* The reports bucket before the first export
InitReports ==
  /\ report_config = [audit_report_signing_key |-> None, audit_report_signing_key_id |-> None]
  /\ report_written = NoReport
  /\ report_document = NoReport
  /\ verification = NoVerification

\* ------------------------------------------------------------ hold release, answered
\* POST /v1/admin/legal-holds/release with its answer, for any hold_id: the
\* row RETURNING gives, or 404 when the UPDATE matched no row.  The action
\* release_legal_hold above is the case of it that changes a row.
release_legal_hold_request(hold_ids) ==
  /\ \E hold_id \in hold_ids :
       IF \E i \in 1..Len(legal_holds) : legal_holds[i].hold_id = hold_id
       THEN /\ legal_holds' = _release_legal_hold(legal_holds, hold_id)
            /\ response' =
                 LET i == CHOOSE j \in 1..Len(legal_holds) : legal_holds[j].hold_id = hold_id
                 IN  [op |-> "release_legal_hold", tenant |-> legal_holds[i].tenant,
                      status |-> 200, hold_id |-> hold_id,
                      released_at |-> legal_holds'[i].released_at]
       ELSE /\ legal_holds' = legal_holds
            /\ response' = [op |-> "release_legal_hold", tenant |-> None, status |-> 404,
                            hold_id |-> hold_id]
  /\ UNCHANGED <<now, storage, uploads, audit_artifacts, retention_policies, run, auth,
                 documents, jobs, chunks, ai_decisions, ai_decision_context_docs,
                 ai_decision_context_chunks, signing, runtime>>

\* ------------------------------------------------------------ write-once artifacts
\* An upload that does not ask for generation 0
upload_bytes_immutable_raises_Never(objects, gs_uri) == FALSE

\* blob.upload_from_string(..., if_generation_match=0) raises PreconditionFailed
\* when an object is at the path
upload_bytes_immutable_raises(objects, gs_uri) == objects[gs_uri].generation # NULL

\* The object upload_bytes_immutable leaves at a path: its generation and the
\* report_hash_sha256 its document carries
StoredDocument(generation, report_hash) ==
  [generation |-> generation, context_docs |-> {}, report_hash_sha256 |-> report_hash]

\* The record export_decisions hands to _insert_audit_artifact_records
ExportArtifactRecord(n, tenant, gs_uri, generation, document, created_by) ==
  ArtifactRow(n, tenant, "decision_export", gs_uri, generation, EmptyMetadata)
    @@ [report_hash_sha256 |-> get(document, "report_hash_sha256").str,
        signature_alg |-> get(document, "signature_alg").str,
        signature_key_id |-> get(document, "signature_key_id").str,
        created_by |-> created_by]

\* POST /v1/decisions/export from the signing of the document on: the write of
\* the object, answered 409 when the path is taken, then the catalog insert.
\* created_by is the subject of the principal, "anonymous" without one.
export_decisions_write(tenants, uris, decisions, subjects) ==
  /\ \E tenant \in tenants, gs_uri \in uris, d \in decisions, created_by \in subjects :
       LET document == export_document(export_payload(tenant, d, now), report_config)
       IN  IF upload_bytes_immutable_raises(storage, gs_uri)
           THEN /\ response' = [op |-> "export_decisions", tenant |-> tenant, status |-> 409,
                                gs_uri |-> gs_uri]
                /\ UNCHANGED <<storage, uploads, audit_artifacts>>
           ELSE /\ uploads < MaxUploads
                /\ uploads' = uploads + 1
                /\ storage' = [storage EXCEPT
                                 ![gs_uri] = StoredDocument(uploads + 1,
                                               get(document, "report_hash_sha256").str)]
                /\ audit_artifacts' =
                     _insert_audit_artifact_records(
                       audit_artifacts,
                       ExportArtifactRecord(uploads + 1, tenant, gs_uri, uploads + 1, document,
                                            created_by))
                /\ response' = [op |-> "export_decisions", tenant |-> tenant, status |-> 200,
                                gs_uri |-> gs_uri]
  /\ UNCHANGED <<now, retention_policies, legal_holds, run, auth, documents, jobs, chunks,
                 ai_decisions, ai_decision_context_docs, ai_decision_context_chunks, signing,
                 runtime>>

\* for item in records: INSERT ... ON CONFLICT DO NOTHING
RECURSIVE insert_all(_, _)
insert_all(rows, records) ==
  IF records = <<>> THEN rows
  ELSE insert_all(_insert_audit_artifact_records(rows, Head(records)), Tail(records))

\* The two files of a package with no decision selected, under its
\* object_prefix: <prefix>/policy_snapshot.json and <prefix>/manifest.json
PackageFiles == [policy_snapshot |-> "u1", manifest |-> "u2"]

\* _sha256_json of the policy snapshot (the configuration alone) and of the
\* manifest (package_id, generated_at, files)
policy_report_hash == "sha256(policy_snapshot)"

manifest_hash(generated_at, files) ==
  "sha256(manifest," \o ToString(generated_at) \o "," \o ToString(files) \o ")"

PackageArtifactRecord(n, tenant, artifact_type, gs_uri, report_hash) ==
  ArtifactRow(n, tenant, artifact_type, gs_uri, n, EmptyMetadata)
    @@ [report_hash_sha256 |-> report_hash]

\* POST /v1/decisions/package with no decision selected: the policy snapshot
\* is uploaded when asked for, then the manifest, and only then are the
\* records of both inserted.  An upload to a taken path raises 409 out of the
\* handler, after the uploads before it and before the insert.
package_decisions(tenants, snapshots) ==
  /\ \E tenant \in tenants, include_policy_snapshot \in snapshots :
       LET policy_gs_uri == PackageFiles.policy_snapshot
           manifest_gs_uri == PackageFiles.manifest
           policy_raises ==
             include_policy_snapshot /\ upload_bytes_immutable_raises(storage, policy_gs_uri)
           policy_written == include_policy_snapshot /\ ~policy_raises
           with_policy ==
             IF policy_written
             THEN [storage EXCEPT
                     ![policy_gs_uri] = StoredDocument(uploads + 1, policy_report_hash)]
             ELSE storage
           n == IF policy_written THEN uploads + 1 ELSE uploads
           files == IF policy_written THEN 1 ELSE 0
           policy_records ==
             IF policy_written
             THEN <<PackageArtifactRecord(uploads + 1, tenant, "policy_snapshot",
                                          policy_gs_uri, policy_report_hash)>>
             ELSE <<>>
           manifest_record ==
             PackageArtifactRecord(n + 1, tenant, "regulator_package_manifest",
                                   manifest_gs_uri, manifest_hash(now, files))
           answer(status) ==
             [op |-> "package_decisions", tenant |-> tenant, status |-> status,
              gs_uri |-> manifest_gs_uri]
       IN  /\ uploads < MaxUploads
           /\ IF policy_raises
              THEN /\ response' = answer(409)
                   /\ UNCHANGED <<storage, uploads, audit_artifacts>>
              ELSE IF upload_bytes_immutable_raises(with_policy, manifest_gs_uri)
              THEN /\ response' = answer(409)
                   /\ storage' = with_policy
                   /\ uploads' = n
                   /\ UNCHANGED audit_artifacts
              ELSE /\ n < MaxUploads
                   /\ response' = answer(200)
                   /\ storage' = [with_policy EXCEPT
                                    ![manifest_gs_uri] =
                                      StoredDocument(n + 1, manifest_hash(now, files))]
                   /\ uploads' = n + 1
                   /\ audit_artifacts' =
                        insert_all(audit_artifacts, policy_records \o <<manifest_record>>)
  /\ UNCHANGED <<now, retention_policies, legal_holds, run, auth, documents, jobs, chunks,
                 ai_decisions, ai_decision_context_docs, ai_decision_context_chunks, signing,
                 runtime>>

Init ==
  /\ now = 1
  /\ storage = [u \in Uris |-> NoObject]
  /\ uploads = 0
  /\ audit_artifacts = <<>>
  /\ retention_policies = [k \in Tenants \X ArtifactTypes |-> NoPolicy]
  /\ legal_holds = <<>>
  /\ run = IdleRun
  /\ auth = NoAuth
  /\ InitLedger
  /\ InitRuntime
  /\ InitReports

\* ------------------------------------------------------------ specifications
\* A call reads the clock, the candidates joined with their policies and the
\* active holds once, before its loop.  Spec runs the other requests between
\* calls; SpecRace interleaves create_legal_hold with the loop.
Idle == run.pc = "idle"

TenantHolds == {<<"t1", "tenant", "*">>, <<"t2", "tenant", "*">>}

Next ==
  \/ Idle /\ export_decisions({"t1"}, {{}})
  \/ Idle /\ upsert_retention_policy({"t1"}, {"decision_export"}, BOOLEAN)
  \/ Idle /\ create_legal_hold(TenantHolds)
  \/ Idle /\ release_legal_hold
  \/ Idle /\ Tick
  \/ enforce_retention_begin(BOOLEAN, {None})
  \/ enforce_retention

Spec == Init /\ [][Next]_vars

\* create_legal_hold commits while a non-dry-run call is in its loop
NextRace ==
  \/ Idle /\ export_decisions({"t1"}, {{}})
  \/ Idle /\ upsert_retention_policy({"t1"}, {"decision_export"}, {TRUE})
  \/ create_legal_hold({<<"t1", "tenant", "*">>, <<"t1", "artifact", "u1">>})
  \/ Idle /\ Tick
  \/ enforce_retention_begin({FALSE}, {None, "t1"})
  \/ enforce_retention

SpecRace == Init /\ [][NextRace]_vars

\* Exports and bundles of decisions that reference documents, under holds of
\* every scope the writers can be held by
ScopedHolds ==
  {<<"t1", "document", "d1">>, <<"t1", "case", "c1">>, <<"t1", "artifact", "u1">>,
   <<"t2", "document", "d1">>}

NextScopes ==
  \/ Idle /\ export_decisions({"t1"}, SUBSET Docs)
  \/ Idle /\ bundle_decisions({"t1"}, SUBSET Docs, {"c1"})
  \/ Idle /\ upsert_retention_policy({"t1"}, ArtifactTypes, {TRUE})
  \/ Idle /\ create_legal_hold(ScopedHolds)
  \/ Idle /\ release_legal_hold
  \/ Idle /\ Tick
  \/ enforce_retention_begin(BOOLEAN, {"t1"})
  \/ enforce_retention

SpecScopes == Init /\ [][NextScopes]_vars

\* Enforcement run again and again: non-dry-run calls over all tenants with
\* limit 1, none of which dies and whose storage deletes all succeed, while
\* exports are written, a policy is set, an artifact is put on hold and the
\* clock moves on.  Every step of a call changes run.
enforce_retention_begin_fixed ==
  /\ enforce_retention_begin({FALSE}, {None})
  /\ run'.limit = 1

enforce_retention_succeeding ==
  \/ /\ enforce_retention_candidate
     /\ \A i \in 1..Len(run'.items) : run'.items[i].action # "DELETE_FAILED"
  \/ enforce_retention_mark
  \/ enforce_retention_commit
  \/ enforce_retention_return

NextProgress ==
  \/ Idle /\ export_decisions({"t1"}, {{}})
  \/ Idle /\ upsert_retention_policy({"t1"}, {"decision_export"}, {TRUE})
  \/ Idle /\ create_legal_hold({<<"t1", "artifact", "u1">>, <<"t1", "artifact", "u2">>})
  \/ Idle /\ Tick
  \/ enforce_retention_begin_fixed
  \/ enforce_retention_succeeding

SpecProgress ==
  /\ Init
  /\ [][NextProgress]_vars
  /\ WF_run(enforce_retention_begin_fixed)
  /\ WF_run(enforce_retention_succeeding)

\* Exports and packages written to the same paths, under policies for every
\* artifact type they write, with enforcement removing what has expired
CatalogTypes == {"decision_export", "policy_snapshot", "regulator_package_manifest"}

InitCatalog ==
  /\ now = 1
  /\ storage = [u \in Uris |-> NoObject]
  /\ uploads = 0
  /\ audit_artifacts = <<>>
  /\ retention_policies = [k \in Tenants \X (ArtifactTypes \cup CatalogTypes) |-> NoPolicy]
  /\ legal_holds = <<>>
  /\ run = IdleRun
  /\ auth = NoAuth
  /\ InitLedger
  /\ InitRuntime
  /\ InitReports

NextCatalog ==
  \/ Idle /\ export_decisions_write({"t1"}, Uris, {"approve"}, {"alice"})
  \/ Idle /\ package_decisions({"t1"}, BOOLEAN)
  \/ Idle /\ upsert_retention_policy({"t1"}, CatalogTypes, {FALSE})
  \/ Idle /\ Tick
  \/ enforce_retention_begin({FALSE}, {None})
  \/ enforce_retention

SpecCatalog == InitCatalog /\ [][NextCatalog]_vars

\* require_auth on every request, token and configuration of the sets below
TenantClaimValues ==
  {Absent, Str("t1"), Str("t2"), Str("*"), Str(" "), Str(" t1 ")}

TenantsClaimValues ==
  {Absent, List(<<>>), List(<<Str("t2")>>), List(<<Str("t2"), Str("*")>>), List(<<Num(7)>>)}

TokenClaims ==
  [sub : {Absent, Str("u1")}, iss : {Str("issuer")},
   aud : {Str("api"), List(<<Str("other")>>)},
   exp : {Absent, Num(69), Num(70)}, nbf : {Absent, Num(131)}, iat : {Absent},
   tenant : TenantClaimValues, tenants : TenantsClaimValues]

Tokens ==
  [shape : {"jwt"}, alg : {"HS256", "RS256"}, signed_with : {"secret", "forged"},
   claims : TokenClaims]

Requests == [scheme : {"Bearer", "Basic"}, token : Tokens]

Configs ==
  [auth_enabled : BOOLEAN, auth_issuer : {"issuer"}, auth_audiences : {{"api"}},
   auth_jwks_url : {None}, auth_algorithms : {{"HS256"}},
   auth_tenant_claims : {{"tenant", "tenants"}}, auth_require_tenant_claim : BOOLEAN,
   auth_jwt_shared_secret : {"secret"}]

InitAuth ==
  /\ now = 1
  /\ storage = [u \in Uris |-> NoObject]
  /\ uploads = 0
  /\ audit_artifacts = <<>>
  /\ retention_policies = [k \in Tenants \X ArtifactTypes |-> NoPolicy]
  /\ legal_holds = <<>>
  /\ run = IdleRun
  /\ auth \in [pc : {"request"}, request : Requests, config : Configs,
               tenant : {None, "t1"}, response : {HTTPException(NULL)}]
  /\ InitLedger
  /\ InitRuntime
  /\ InitReports

NextAuth == require_auth_call

SpecAuth == InitAuth /\ [][NextAuth]_vars

\* The admin operations behind their two checks.  The requests of a behaviour
\* carry one Authorization header and one x-admin-key; one export is in the
\* catalog for enforcement to work on.
AdminTokens ==
  [shape : {"jwt"}, alg : {"HS256"}, signed_with : {"secret", "forged"},
   claims : [sub : {Absent, Str("u1")}, iss : {Str("issuer")}, aud : {Str("api")},
             exp : {Num(70)}, nbf : {Absent}, iat : {Absent}, tenant : {Absent},
             tenants : {Absent}]]

AdminRequests ==
  [scheme : {"Bearer", "Basic"}, token : AdminTokens, x_admin_key : {None, "k1", "k2"}]

AdminConfigs ==
  [auth_enabled : BOOLEAN, auth_issuer : {"issuer"}, auth_audiences : {{"api"}},
   auth_jwks_url : {None}, auth_algorithms : {{"HS256"}},
   auth_tenant_claims : {{"tenant", "tenants"}}, auth_require_tenant_claim : {TRUE},
   auth_jwt_shared_secret : {"secret"}, admin_api_key : {None, "k1"}]

InitAdmin ==
  /\ now = 1
  /\ storage = [u \in Uris |-> NoObject]
  /\ uploads = 0
  /\ audit_artifacts = <<>>
  /\ retention_policies = [k \in Tenants \X ArtifactTypes |-> NoPolicy]
  /\ legal_holds = <<>>
  /\ run = IdleRun
  /\ auth \in [pc : {"request"}, request : AdminRequests, config : AdminConfigs,
               tenant : {None}, response : {HTTPException(NULL)}]
  /\ InitLedger
  /\ InitRuntime
  /\ InitReports

NextAdmin ==
  \/ require_auth_call
  \/ _require_admin_api_key_call
  \/ Idle /\ uploads = 0 /\ export_decisions({"t1"}, {{}})
  \/ Idle /\ Tick
  \/ Admitted /\ Idle /\ upsert_retention_policy({"t1"}, {"decision_export"}, {TRUE})
  \/ Admitted /\ Idle /\ create_legal_hold({<<"t1", "tenant", "*">>})
  \/ Admitted /\ Idle /\ release_legal_hold
  \/ Admitted /\ enforce_retention_begin(BOOLEAN, {None})
  \/ enforce_retention

SpecAdmin == InitAdmin /\ [][NextAdmin]_vars

\* One export is signed and stored, its stored bytes are altered from
\* outside, and verify_decision_artifact is asked about it.  Verification
\* changes nothing, so the alterations are all made before the first one.
ReportConfigs ==
  [audit_report_signing_key : {None, "key1"}, audit_report_signing_key_id : {None, "kid1"}]

PayloadAlterations ==
  [key : {"decisions"}, value : {Str("approve"), Str("deny")}, remove : {FALSE}]
    \cup [key : {"tenant"}, value : {Str("t1"), Str("t2")}, remove : {FALSE}]
    \cup [key : {"generated_at"}, value : {Str(_json_default(Datetime(2)))}, remove : BOOLEAN]
    \cup [key : {"note"}, value : {Str("x")}, remove : {FALSE}]

TrailerAlterations ==
  [key : {"report_hash_sha256"}, value : {Str("sha256(bogus)")}, remove : {FALSE}]
    \cup [key : {"signature_alg"}, value : {Str("none"), Str("hmac-sha256"), Str("rsa")},
          remove : {FALSE}]
    \cup [key : {"signature"}, value : {Str("forged")}, remove : BOOLEAN]

VerifyRequests ==
  [expected_report_hash_sha256 : {None, "sha256(bogus)"},
   expected_signature_key_id : {None, "kid1"}]

InitSigning ==
  /\ now = 1
  /\ storage = [u \in Uris |-> NoObject]
  /\ uploads = 0
  /\ audit_artifacts = <<>>
  /\ retention_policies = [k \in Tenants \X ArtifactTypes |-> NoPolicy]
  /\ legal_holds = <<>>
  /\ run = IdleRun
  /\ auth = NoAuth
  /\ InitLedger
  /\ InitRuntime
  /\ report_config \in ReportConfigs
  /\ report_written = NoReport
  /\ report_document = NoReport
  /\ verification = NoVerification

NextSigning ==
  \/ write_export_document({"t1"}, {"approve", "deny"})
  \/ verification = NoVerification
       /\ alter_stored_document(PayloadAlterations \cup TrailerAlterations)
  \/ verify_decision_artifact(VerifyRequests)

SpecSigning == InitSigning /\ [][NextSigning]_vars

\* A signed export under a verifier that holds the signing key: the stored
\* bytes are altered from outside in the payload and in each of the four
\* trailer fields, the hash is recomputed over the altered payload, and
\* verify_decision_artifact is asked about the result
KeyIdAlterations == [key : {"signature_key_id"}, value : {Str("kid2")}, remove : BOOLEAN]

InitTamper ==
  /\ InitSigning
  /\ report_config.audit_report_signing_key # None

NextTamper ==
  \/ write_export_document({"t1"}, {"approve", "deny"})
  \/ verification = NoVerification
       /\ alter_stored_document(PayloadAlterations \cup TrailerAlterations
                                  \cup KeyIdAlterations)
  \/ verification = NoVerification /\ recompute_report_hash
  \/ verify_decision_artifact(VerifyRequests)

SpecTamper == InitTamper /\ [][NextTamper]_vars

\* Token verification: require_auth with authentication enabled, on tokens of
\* every shape, algorithm, signature and registered claim of the sets below
VerifyClaims ==
  [sub : {Absent, Str("u1")}, iss : {Str("issuer"), Str("other")},
   aud : {Absent, Str("api"), List(<<Str("other")>>)},
   exp : {Absent, Num(69), Num(70)}, nbf : {Absent, Num(130), Num(131)},
   iat : {Absent, Num(131)}, tenant : {Absent, Str("t1")}, tenants : {Absent}]

VerifyTokens ==
  [shape : {"jwt", "two_segments", "undecodable"}, alg : {"HS256", "RS256"},
   signed_with : {"secret", "forged"}, claims : VerifyClaims]

VerifyConfigs ==
  [auth_enabled : {TRUE}, auth_issuer : {"issuer"}, auth_audiences : {{"api"}},
   auth_jwks_url : {None}, auth_algorithms : {{"HS256"}, {"HS256", "RS256"}},
   auth_tenant_claims : {{"tenant", "tenants"}}, auth_require_tenant_claim : {TRUE},
   auth_jwt_shared_secret : {"secret", None}]

InitVerify ==
  /\ now = 1
  /\ storage = [u \in Uris |-> NoObject]
  /\ uploads = 0
  /\ audit_artifacts = <<>>
  /\ retention_policies = [k \in Tenants \X ArtifactTypes |-> NoPolicy]
  /\ legal_holds = <<>>
  /\ run = IdleRun
  /\ auth \in [pc : {"request"}, request : [scheme : {"Bearer"}, token : VerifyTokens],
               config : VerifyConfigs, tenant : {None, "t1"},
               response : {HTTPException(NULL)}]
  /\ InitLedger
  /\ InitRuntime
  /\ InitReports

SpecVerify == InitVerify /\ [][NextAuth]_vars

\* The document and decision ledger under requests of two tenants that use
\* the same doc id and the same decision id
LedgerPayloads ==
  {p \in DecisionPayloads : /\ p.decision_id = "x1"
                            /\ p.context_docs = <<"d1">>
                            /\ p.context_chunks \in {<<>>, <<chunk_id_of("d1")>>}}

NextLedger ==
  \/ _ingest_signed_url({200, 403}, Tenants, {"d1"})
  \/ process_direct({200}, Tenants, {"d1"}, {0, 1})
  \/ get_document_status({200}, Tenants, {"d1"})
  \/ ingest_decision({200}, LedgerPayloads)
  \/ query_decisions({200}, Tenants)
  \/ Tick

SpecLedger == Init /\ [][NextLedger]_vars

\* The decision ledger of one tenant.  The payloads the requests send reach
\* every kind of answer; the claims range over all of DecisionPayloads.
SentPayloads ==
  {p \in DecisionPayloads :
     /\ p.tenant = "t1"
     /\ \/ /\ p.decision_id = "x1"
           /\ p.model = "m1"
           /\ p.context_docs \in {<<"d1">>, <<"d1", "d2">>}
           /\ p.context_chunks \in {<<>>, <<chunk_id_of("d1")>>,
                                     <<chunk_id_of("d2"), chunk_id_of(UnknownDoc)>>}
        \/ /\ p.decision_id = "x1"
           /\ p.model = "m2"
           /\ p.context_docs = <<"d1", "d2">>
           /\ p.context_chunks = <<>>
        \/ /\ p.decision_id = "x2"
           /\ p.model = "m1"
           /\ p.context_docs = <<"d1">>
           /\ p.context_chunks = <<>>}

NextDecisions ==
  \/ process_direct({200}, {"t1"}, LedgerDocs, {1})
  \/ ingest_decision(AuthOutcomes, SentPayloads)
  \/ Tick

SpecDecisions == Init /\ [][NextDecisions]_vars

\* Exports written to paths the callers choose, under a retention policy
\* whose enforcement removes expired objects and marks their catalog rows
NextWriteOnce ==
  \/ Idle /\ export_decisions_write({"t1"}, Uris, {"approve"}, {"alice", "anonymous"})
  \/ Idle /\ upsert_retention_policy({"t1"}, {"decision_export"}, {FALSE})
  \/ Idle /\ Tick
  \/ enforce_retention_begin({FALSE}, {None})
  \/ enforce_retention

SpecWriteOnce == InitSigning /\ [][NextWriteOnce]_vars

\* Holds created and released, with hold ids known, already released and
\* unknown, among the other requests of the retention engine
NextHolds ==
  \/ Idle /\ export_decisions({"t1"}, {{}})
  \/ Idle /\ upsert_retention_policy({"t1"}, {"decision_export"}, {TRUE})
  \/ Idle /\ create_legal_hold({<<"t1", "tenant", "*">>})
  \/ Idle /\ release_legal_hold_request(Range(HoldIds))
  \/ Idle /\ Tick
  \/ enforce_retention_begin({FALSE}, {None})
  \/ enforce_retention

SpecHolds == Init /\ [][NextHolds]_vars

\* The callers of the gate, each a thread whose statements interleave with
\* those of the others
NextGate ==
  \E c \in Callers :
    \/ try_enter_acquire(c)
    \/ try_enter_count(c)
    \/ leave_count(c)
    \/ leave_release(c)

SpecGate == Init /\ [][NextGate]_vars

\* The request threads of the processor, one more than the gate admits, each
\* running _process_with_backpressure again and again
ProcessingOutcomes == {"returned", "raised"}

NextBackpressure ==
  \E c \in Callers :
    \/ _process_with_backpressure_try_enter(c)
    \/ _process_with_backpressure_rejects(c)
    \/ try_enter_count(c)
    \/ _process_ingest_message_ends(c, ProcessingOutcomes)
    \/ _process_with_backpressure_leave(c)
    \/ leave_release(c)

SpecBackpressure == Init /\ [][NextBackpressure]_vars

\* Decisions that cite documents and chunks while both tenants ingest and
\* (re)process documents whose text gives one chunk or two
CitingPayloads ==
  [decision_id : {"x1"}, tenant : Tenants, model : {"m1"},
   context_docs : {<<"d1">>, <<"d1", "d2">>},
   context_chunks : {<<>>, <<"d1:00001">>, <<"d1:00000", "d2:00000">>}]

NextReferences ==
  \/ _ingest_signed_url({200}, {"t2"}, {"d1"})
  \/ process_direct({200}, Tenants, {"d1"}, {1, 2})
  \/ process_direct({200}, {"t1"}, {"d2"}, {1})
  \/ ingest_decision({200}, CitingPayloads)

SpecReferences == Init /\ [][NextReferences]_vars

\* The same ledger with POST /v1/decisions taken statement by statement, one
\* transaction at a time, any statement of which may be its last
NextTxn ==
  \/ process_direct({200}, {"t1"}, LedgerDocs, {1})
  \/ ingest_begin({200, 401}, SentPayloads)
  \/ ingest_step
  \/ ingest_abort
  \/ Tick

SpecTxn == Init /\ [][NextTxn]_vars

\* Key resolution: _decode_claims of a process whose configuration allows
\* HS256 and RS256, on tokens of either algorithm, while the discovery and
\* key-set endpoints answer in every way or fail
GoodClaims ==
  [sub |-> Str("u1"), iss |-> Str("issuer"), aud |-> Str("api"), exp |-> Num(70),
   nbf |-> Absent, iat |-> Absent, tenant |-> Absent, tenants |-> Absent]

ExpiredClaims == [GoodClaims EXCEPT !.exp = Num(69)]

KeySetOne == <<Jwk("k1", "rsa1")>>
KeySetRotated == <<Jwk("k1", "rsa1"), Jwk("k2", "rsa2")>>
KeySetNoModulus == <<Jwk("k1", None)>>

ResolveTokens ==
  [shape : {"jwt"}, alg : {"RS256"}, kid : {None, "k1", "k2"},
   signed_with : {"rsa1", "forged"}, claims : {GoodClaims, ExpiredClaims}]
  \cup [shape : {"two_segments"}, alg : {"RS256"}, kid : {"k1"}, signed_with : {"rsa1"},
        claims : {GoodClaims}]
  \cup [shape : {"jwt"}, alg : {"HS256"}, kid : {None}, signed_with : {"secret", "forged"},
        claims : {GoodClaims, ExpiredClaims}]

ResolveConfigs ==
  [auth_enabled : {TRUE}, auth_issuer : {None, "issuer", "issuer/"},
   auth_audiences : {{"api"}}, auth_jwks_url : {None, "j1"},
   auth_algorithms : {{"HS256", "RS256"}}, auth_tenant_claims : {{"tenant", "tenants"}},
   auth_require_tenant_claim : {FALSE}, auth_jwt_shared_secret : {"secret"}]

Discoveries ==
  UpstreamFailures \cup {DiscoveryDocument(None), DiscoveryDocument("j1"), DiscoveryDocument("j2")}

KeySets ==
  UpstreamFailures
  \cup {KeySet(<<>>), KeySet(KeySetOne), KeySet(KeySetRotated), KeySet(KeySetNoModulus)}

InitResolver(configs) ==
  /\ now = 1
  /\ storage = [u \in Uris |-> NoObject]
  /\ uploads = 0
  /\ audit_artifacts = <<>>
  /\ retention_policies = [k \in Tenants \X ArtifactTypes |-> NoPolicy]
  /\ legal_holds = <<>>
  /\ run = IdleRun
  /\ auth \in [pc : {"none"}, config : configs]
  /\ InitLedger
  /\ InitRuntime
  /\ InitReports

\* The calls a behaviour makes: they fill the caches in every way
SentTokens ==
  {token \in ResolveTokens : /\ token.claims = GoodClaims
                             /\ token.signed_with \in {"rsa1", "secret"}
                             /\ token.kid \in {None, "k1"}}

SentDiscoveries ==
  {Failing("json_array"), DiscoveryDocument(None), DiscoveryDocument("j1"),
   DiscoveryDocument("j2")}

SentKeySets == {Failing("timeout"), KeySet(<<>>), KeySet(KeySetOne), KeySet(KeySetRotated)}

NextResolve == _decode_claims_call(SentTokens, SentDiscoveries, SentKeySets)

SpecResolve == InitResolver(ResolveConfigs) /\ [][NextResolve]_vars

\* Registered time claims: tokens of either algorithm whose signature
\* verifies and whose issuer and audience are the configured ones, with exp,
\* nbf and iat on both sides of the skew; the key set is served
TimeClaims ==
  {[GoodClaims EXCEPT !.exp = exp, !.nbf = nbf, !.iat = iat] :
     exp \in {Absent, Str("70"), Num(69), Num(70), Num(71)},
     nbf \in {Absent, Num(130), Num(131)},
     iat \in {Absent, Num(130), Num(131)}}

ClaimsTokens ==
  [shape : {"jwt"}, alg : {"HS256"}, kid : {None}, signed_with : {"secret"},
   claims : TimeClaims]
  \cup [shape : {"jwt"}, alg : {"RS256"}, kid : {"k1"}, signed_with : {"rsa1"},
        claims : TimeClaims]

ClaimsConfigs ==
  {config \in ResolveConfigs : config.auth_issuer = "issuer" /\ config.auth_jwks_url = "j1"}

NextClaims ==
  _decode_claims_call(ClaimsTokens, {DiscoveryDocument("j1")}, {KeySet(KeySetOne)})

SpecClaims == InitResolver(ClaimsConfigs) /\ [][NextClaims]_vars

\* The key-set cache: resolutions for two URLs while the clock moves on by
\* a second or by a second less than the time an entry lives, and the
\* endpoint serves a key set, another one, an empty one, or times out
SleepSeconds == {1, _OPENID_CACHE_TTL_SECONDS - 1}

NextJwks ==
  \/ _resolve_signing_jwk_call(JwksUrls, {"k1"},
                               {Failing("timeout"), KeySet(<<>>), KeySet(KeySetOne),
                                KeySet(KeySetRotated)})
  \/ sleep(SleepSeconds)

SpecJwks == InitResolver(ClaimsConfigs) /\ [][NextJwks]_vars

\* require_auth check by check, on tokens that fail at one check or at
\* several, under configurations that allow HS256, HS256 and RS256, or RS256
\* and "none"
OrderClaims ==
  [sub : {Absent, Str("u1")}, iss : {Str("issuer")}, aud : {Str("api")},
   exp : {Num(69), Num(70)}, nbf : {Absent}, iat : {Absent},
   tenant : {Absent, Str("t1"), Str("t2")}, tenants : {Absent}]

OrderTokens ==
  [shape : {"jwt"}, alg : {"HS256", "RS256", "none"}, kid : {"k1"},
   signed_with : {"secret", "rsa1", "forged"}, claims : OrderClaims]

OrderConfigs ==
  [auth_enabled : {TRUE}, auth_issuer : {"issuer"}, auth_audiences : {{"api"}},
   auth_jwks_url : {None, "j1"},
   auth_algorithms : {{"HS256"}, {"HS256", "RS256"}, {"RS256", "none"}},
   auth_tenant_claims : {{"tenant", "tenants"}}, auth_require_tenant_claim : {TRUE},
   auth_jwt_shared_secret : {"secret"}]

OrderDiscoveries == {Failing("timeout"), DiscoveryDocument("j1")}

OrderKeySets == {Failing("timeout"), KeySet(KeySetOne)}

InitOrder ==
  /\ now = 1
  /\ storage = [u \in Uris |-> NoObject]
  /\ uploads = 0
  /\ audit_artifacts = <<>>
  /\ retention_policies = [k \in Tenants \X ArtifactTypes |-> NoPolicy]
  /\ legal_holds = <<>>
  /\ run = IdleRun
  /\ auth \in [pc : {"request"}, request : [scheme : {"Bearer"}, token : OrderTokens],
               config : OrderConfigs, tenant : {"t1"}, response : {HTTPException(NULL)},
               passed : {<<>>}, verified_with : {None}]
  /\ InitLedger
  /\ InitRuntime
  /\ InitReports

NextOrder ==
  \/ require_auth_algorithm
  \/ require_auth_signature(OrderDiscoveries, OrderKeySets)
  \/ require_auth_registered_claims
  \/ require_auth_sub
  \/ require_auth_tenant

SpecOrder == InitOrder /\ [][NextOrder]_vars

\* Messages of every kind reach the dead-letter subscription and replay_dlq
\* is called on it, while pull, publish and acknowledge succeed or fail
NextReplay ==
  \/ dead_letter(DlqData)
  \/ replay_dlq({1, MaxDlq})

SpecReplay == Init /\ [][NextReplay]_vars

\* Push requests without a header, with a vendor token of the message's
\* tenant or of another, with a push token of the allowed service account or
\* of another, under authentication off, and on with unauthenticated push
\* and the push allow-lists allowed or not; envelopes that do not decode
PushClaims(aud, tenant, email) ==
  [sub |-> Str("u1"), iss |-> Str("issuer"), aud |-> Str(aud), exp |-> Num(70),
   nbf |-> Absent, iat |-> Absent, tenant |-> tenant, tenants |-> Absent, email |-> email]

PushToken(aud, tenant, email) ==
  [shape |-> "jwt", alg |-> "HS256", signed_with |-> "secret",
   claims |-> PushClaims(aud, tenant, email)]

PushConfig(enabled, unauthenticated, push) ==
  [auth_enabled |-> enabled, auth_issuer |-> "issuer", auth_audiences |-> {"api"},
   auth_jwks_url |-> None, auth_algorithms |-> {"HS256"},
   auth_tenant_claims |-> {"tenant", "tenants"}, auth_require_tenant_claim |-> TRUE,
   auth_jwt_shared_secret |-> "secret",
   auth_allow_unauthenticated_pubsub |-> unauthenticated,
   pubsub_push_auth_enabled |-> push, pubsub_push_audiences |-> {"push"},
   pubsub_push_service_accounts |-> {"sa1"}]

VendorRequest(tenant) == [scheme |-> "Bearer", token |-> PushToken("api", Str(tenant), Absent)]

PushRequest(email) == [scheme |-> "Bearer", token |-> PushToken("push", Absent, Str(email))]

NoHeader == [scheme |-> None, token |-> PushToken("api", Absent, Absent)]

PushCall(data, tenant, request, config) ==
  [envelope |-> [data |-> data, tenant |-> tenant], request |-> request, config |-> config]

PushCalls ==
  {PushCall(Direct("d1"), "t1", NoHeader, PushConfig(FALSE, FALSE, FALSE)),
   PushCall(Direct("d1"), "t1", NoHeader, PushConfig(TRUE, TRUE, FALSE)),
   PushCall(Direct("d1"), "t1", NoHeader, PushConfig(TRUE, FALSE, TRUE)),
   PushCall(Direct("d1"), "t1", VendorRequest("t1"), PushConfig(TRUE, TRUE, TRUE)),
   PushCall(Direct("d1"), "t1", VendorRequest("t2"), PushConfig(TRUE, FALSE, FALSE)),
   PushCall(Direct("d1"), "t1", VendorRequest("t2"), PushConfig(TRUE, FALSE, TRUE)),
   PushCall(Direct("d1"), "t1", PushRequest("sa1"), PushConfig(TRUE, FALSE, TRUE)),
   PushCall(Direct("d1"), "t1", PushRequest("sa2"), PushConfig(TRUE, TRUE, TRUE)),
   PushCall(Direct("d1"), "t1", PushRequest("sa1"), PushConfig(TRUE, TRUE, FALSE)),
   PushCall(NotJson, None, NoHeader, PushConfig(TRUE, FALSE, TRUE)),
   PushCall(Wrapped("d2"), None, PushRequest("sa1"), PushConfig(TRUE, FALSE, TRUE))}

NextPush ==
  \E c \in Callers :
    \/ process_pubsub(c, PushCalls)
    \/ _process_with_backpressure_rejects(c)
    \/ try_enter_count(c)
    \/ _process_ingest_message_ends(c, ProcessingOutcomes)
    \/ _process_with_backpressure_leave(c)
    \/ leave_release(c)

SpecPush == Init /\ [][NextPush]_vars

\* The requests of Spec, and a second enforcement call that overlaps the first
NextOverlap ==
  \/ Idle /\ export_decisions({"t1"}, {{}})
  \/ Idle /\ upsert_retention_policy({"t1"}, {"decision_export"}, {FALSE})
  \/ Idle /\ Tick
  \/ enforce_retention_begin({FALSE}, {None})
  \/ enforce_retention
  \/ enforce_retention_overlapping

SpecOverlap == Init /\ [][NextOverlap]_vars

\* ------------------------------------------------------------ claims
\* The candidates of the call in flight that have their item
Judged == IF run.pc = "idle" THEN {} ELSE 1..Len(run.items)

\* created_at + retain_days <= now, for a candidate that has a policy
Expired(row) ==
  /\ row.policy_retain_days # NULL
  /\ row.created_at + row.policy_retain_days <= run.now

\* An active tenant-scope hold of the candidate's own tenant among the holds read
TenantHoldCovers(row) ==
  \E h \in Range(run.holds) :
    /\ h.released_at = NULL
    /\ h.tenant = row.tenant
    /\ h.scope_type = "tenant"
    /\ h.scope_id \in {row.tenant, "*"}

\* C1 as stated: every candidate older than retain_days that an active
\* tenant-scope hold of its tenant matches is answered SKIP_LEGAL_HOLD, for
\* every policy and for both values of dry_run.
C1_HoldAlwaysSkips ==
  \A i \in Judged :
    (Expired(run.candidates[i]) /\ TenantHoldCovers(run.candidates[i]))
      => run.items[i].action = "SKIP_LEGAL_HOLD"

\* C1 as amended: every candidate older than retain_days whose policy has
\* legal_hold_enabled and that an active tenant-scope hold of its tenant
\* matches is answered SKIP_LEGAL_HOLD (never DELETED, WOULD_DELETE or
\* DELETE_FAILED), for both values of dry_run, and no delete mark is written.
C1_HoldSkipsWhenEnabled ==
  \A i \in Judged :
    (/\ Expired(run.candidates[i])
     /\ run.candidates[i].policy_legal_hold_enabled
     /\ TenantHoldCovers(run.candidates[i]))
      => /\ run.items[i].action = "SKIP_LEGAL_HOLD"
         /\ run.items[i].hold_ids # <<>>
         /\ \A m \in Range(run.marks) : m.artifact_id # run.candidates[i].artifact_id

C1_Witness ==
  /\ run.pc = "done"
  /\ ~run.dry_run
  /\ \E i \in Judged :
       /\ Expired(run.candidates[i])
       /\ run.candidates[i].policy_legal_hold_enabled
       /\ TenantHoldCovers(run.candidates[i])
       /\ run.items[i].action = "SKIP_LEGAL_HOLD"

\* A hold applies to a candidate: the scope rules of the retention enforcer
HoldApplies(h, row) ==
  /\ h.released_at = NULL
  /\ h.tenant = row.tenant
  /\ \/ h.scope_type = "tenant" /\ h.scope_id \in {row.tenant, "*"}
     \/ h.scope_type = "artifact" /\ h.scope_id \in {row.artifact_id, row.gs_uri}
     \/ h.scope_type = "decision" /\ h.scope_id \in {row.metadata.decision_id} \cup row.metadata.decision_ids
     \/ h.scope_type = "document" /\ h.scope_id \in row.metadata.context_docs
     \/ h.scope_type = "case" /\ h.scope_id = row.metadata.case_id

FirstApplicable(row) ==
  IF row.policy_retain_days = NULL THEN {"SKIP_POLICY_MISSING"}
  ELSE IF row.created_at + row.policy_retain_days > run.now THEN {"SKIP_NOT_EXPIRED"}
  ELSE IF row.policy_legal_hold_enabled /\ \E h \in Range(run.holds) : HoldApplies(h, row)
    THEN {"SKIP_LEGAL_HOLD"}
  ELSE IF run.dry_run THEN {"WOULD_DELETE"}
  ELSE {"DELETED", "DELETE_FAILED"}

Count(action) == Cardinality({i \in Judged : run.items[i].action = action})

\* C3: every candidate gets exactly one item, in scan order, whose action is
\* the first applicable of SKIP_POLICY_MISSING, SKIP_NOT_EXPIRED,
\* SKIP_LEGAL_HOLD, WOULD_DELETE, DELETED / DELETE_FAILED; only a DELETED
\* item has a delete mark; each counter counts the items of its action, so
\* one expired unheld candidate whose delete succeeds gives deleted = 1 and
\* every skipped counter 0.
C3_FirstApplicableAction ==
  run.pc # "idle" =>
    /\ Len(run.items) = run.idx - 1
    /\ run.scanned = Len(run.candidates)
    /\ run.pc = "done" => Len(run.items) = Len(run.candidates)
    /\ \A i \in Judged :
         /\ run.items[i].artifact_id = run.candidates[i].artifact_id
         /\ run.items[i].action \in FirstApplicable(run.candidates[i])
         /\ (run.items[i].action = "DELETED") <=>
              (\E m \in Range(run.marks) : m.artifact_id = run.candidates[i].artifact_id)
    /\ run.deleted = Count("DELETED")
    /\ run.failed = Count("DELETE_FAILED")
    /\ run.skipped_policy_missing = Count("SKIP_POLICY_MISSING")
    /\ run.skipped_not_expired = Count("SKIP_NOT_EXPIRED")
    /\ run.skipped_on_hold = Count("SKIP_LEGAL_HOLD")

C3_Witness ==
  /\ run.pc = "done"
  /\ ~run.dry_run
  /\ Len(run.items) = 1
  /\ run.items[1].action = "DELETED"
  /\ run.deleted = 1
  /\ run.skipped_policy_missing + run.skipped_not_expired + run.skipped_on_hold = 0
  /\ \E a \in Range(audit_artifacts) :
       a.artifact_id = run.items[1].artifact_id /\ a.deleted_at # NULL

\* C4 as stated: in every response, dry-run or not,
\* scanned = deleted + skipped_not_expired + skipped_on_hold + skipped_policy_missing + failed.
C4_CountersReconcile ==
  run.pc = "done" =>
    run.scanned = run.deleted + run.skipped_not_expired + run.skipped_on_hold
                  + run.skipped_policy_missing + run.failed

\* The committed catalog row of a candidate
RowOf(artifact_id) == CHOOSE a \in Range(audit_artifacts) : a.artifact_id = artifact_id

\* The object the row was written for is no longer in the bucket
ObjectGone(gs_uri, generation) == storage[gs_uri].generation # generation

\* C5: the storage delete precedes the catalog mark.  Every row marked
\* deleted, committed or still pending in the open transaction, is the row of
\* an object already removed from the bucket, in every state a run, a crash
\* or a cancellation can leave behind; a mark is only ever written by the step
\* that follows a storage delete which returned without error.
C5_StorageDeleteBeforeMark ==
  /\ [](\A a \in Range(audit_artifacts) :
          a.deleted_at # NULL => ObjectGone(a.gs_uri, a.object_generation))
  /\ [](run.pc # "idle" =>
          \A m \in Range(run.marks) : \A c \in Range(run.candidates) :
            c.artifact_id = m.artifact_id => ObjectGone(c.gs_uri, c.object_generation))
  /\ [][(run.pc # "idle" /\ run'.pc # "idle" /\ run'.marks # run.marks)
          => /\ run.pc = "mark"
             /\ ObjectGone(run.candidates[run.idx].gs_uri,
                           run.candidates[run.idx].object_generation)
             /\ run'.marks = Append(run.marks, run'.marks[Len(run'.marks)])
             /\ run'.marks[Len(run'.marks)].artifact_id = run.candidates[run.idx].artifact_id]_vars

\* A run died between the storage delete and the commit: the object is gone
\* and the row is not marked; and a later run has marked a row.
C5_Witness ==
  /\ run.pc = "done"
  /\ \E a \in Range(audit_artifacts) :
       a.deleted_at # NULL /\ a.deleted_by = Actor /\ storage[a.gs_uri].generation = NULL
  /\ \E a \in Range(audit_artifacts) :
       a.deleted_at = NULL /\ storage[a.gs_uri].generation = NULL

DryRunCandidates ==
  LET live == SelectSeq(audit_artifacts, LAMBDA a : a.deleted_at = NULL)
  IN SubSeq(live, 1, Min(run.limit, Len(live)))

DryRunAction(a) ==
  LET p == retention_policies[<<a.tenant, a.artifact_type>>]
  IN IF p.retain_days = NULL THEN "SKIP_POLICY_MISSING"
     ELSE IF a.created_at + p.retain_days > now THEN "SKIP_NOT_EXPIRED"
     ELSE IF p.legal_hold_enabled /\ \E h \in Range(legal_holds) : HoldApplies(h, a)
       THEN "SKIP_LEGAL_HOLD"
     ELSE "WOULD_DELETE"

\* C8: a dry run changes nothing: no step of it changes the bucket, a row
\* of audit_artifacts, a policy or a hold, and it queues no delete mark; every
\* expired candidate no hold applies to is answered WOULD_DELETE; and what it
\* answers is a function of the catalog it leaves unchanged, so repeating it
\* answers the same.
C8_DryRunChangesNothing ==
  /\ [][((run.pc # "idle" /\ run.dry_run) \/ (run'.pc # "idle" /\ run'.dry_run))
          => UNCHANGED <<storage, uploads, audit_artifacts, retention_policies, legal_holds>>]_vars
  /\ [](run.pc # "idle" /\ run.dry_run =>
          /\ run.marks = <<>>
          /\ run.deleted = 0
          /\ \A i \in Judged :
               /\ (/\ Expired(run.candidates[i])
                   /\ ~\E h \in Range(run.holds) : HoldApplies(h, run.candidates[i]))
                    => run.items[i].action = "WOULD_DELETE"
               /\ run.items[i].artifact_id = DryRunCandidates[i].artifact_id
               /\ run.items[i].action = DryRunAction(DryRunCandidates[i])
          /\ run.pc = "done" => Len(run.items) = Len(DryRunCandidates))

C8_Witness ==
  /\ run.pc = "done"
  /\ run.dry_run
  /\ Len(run.items) = 2
  /\ run.items[1].action = "WOULD_DELETE"
  /\ storage[run.items[1].gs_uri].generation # NULL
  /\ RowOf(run.items[1].artifact_id).deleted_at = NULL

\* A committed active hold applies to a committed row
Held(a) == \E h \in Range(legal_holds) : HoldApplies(h, a)

\* C2: whatever the interleaving of create_legal_hold with a non-dry-run
\* call, no step removes the object of a row, or marks the row deleted, while
\* a committed active hold that covers the row exists.
C2_NoDeletionUnderCommittedHold ==
  [][\A i \in 1..Len(audit_artifacts) :
       Held(audit_artifacts[i]) =>
         /\ storage[audit_artifacts[i].gs_uri].generation = audit_artifacts[i].object_generation
              => storage'[audit_artifacts[i].gs_uri] = storage[audit_artifacts[i].gs_uri]
         /\ audit_artifacts[i].deleted_at = NULL => audit_artifacts'[i].deleted_at = NULL]_vars

\* C9: the hold ids of an item are exactly the ids of the active holds of the
\* artifact's tenant whose scope applies (tenant, artifact, decision, document
\* or case); and a candidate written by export or bundle whose document
\* references a document under an active document-scope hold is answered
\* SKIP_LEGAL_HOLD and nothing is deleted.
C9_HoldScopes ==
  /\ [](\A i \in Judged :
          (Expired(run.candidates[i]) /\ run.candidates[i].policy_legal_hold_enabled)
            => Range(run.items[i].hold_ids) =
                 {h.hold_id : h \in {g \in Range(run.holds) : HoldApplies(g, run.candidates[i])}})
  /\ [][(/\ run.pc = "loop"
         /\ run.idx <= Len(run.candidates)
         /\ run'.pc # "idle"
         /\ Expired(run.candidates[run.idx])
         /\ run.candidates[run.idx].policy_legal_hold_enabled
         /\ \E h \in Range(run.holds) :
              /\ h.released_at = NULL
              /\ h.tenant = run.candidates[run.idx].tenant
              /\ h.scope_type = "document"
              /\ h.scope_id \in storage[run.candidates[run.idx].gs_uri].context_docs)
          => /\ run'.pc = "loop"
             /\ run'.items[run.idx].action = "SKIP_LEGAL_HOLD"
             /\ run'.deleted = 0
             /\ storage' = storage]_vars

\* The token passed authentication: bearer scheme, signature, registered
\* claims and subject
Verifies ==
  /\ auth.config.auth_enabled
  /\ lower(auth.request.scheme) = "bearer"
  /\ _decode_claims(auth.request.token, auth.config) = 200
  /\ auth.request.token.claims.sub.type = "str"

\* The strings a tenant claim of the token lists
ClaimedTenants ==
  UNION {LET raw == auth.request.token.claims[name]
         IN IF raw.type = "str" THEN {raw.str}
            ELSE {raw.list[i].str : i \in {j \in 1..Len(raw.list) : raw.list[j].type = "str"}}
         : name \in auth.config.auth_tenant_claims}

\* C10: a token that verifies, carries a tenant claim, and lists neither
\* the requested tenant nor "*" in it is answered 403 and no principal,
\* whatever auth_require_tenant_claim is.
C10_TenantMismatchIsDenied ==
  (/\ auth.pc = "answered"
   /\ Verifies
   /\ auth.tenant # None
   /\ \E name \in auth.config.auth_tenant_claims :
        auth.request.token.claims[name].type # "absent"
   /\ \A value \in ClaimedTenants : strip_claim(value) \notin {auth.tenant, "*"})
    => /\ auth.response.status = 403
       /\ auth.response.returned = "raised"

\* C11: a request made for one tenant never modifies a row of another tenant
\* (document, job, chunk, decision, context link) and never returns one, even
\* when the two tenants use the same doc_id or decision_id.
OtherTenantsRows(t, docs, js, cs, ds, cds, ccs) ==
  [documents |-> [d \in DOMAIN docs |-> IF docs[d].tenant = t THEN NoDocument ELSE docs[d]],
   jobs |-> [d \in DOMAIN js |-> IF js[d].tenant = t THEN NoJob ELSE js[d]],
   chunks |-> {c \in cs : c.tenant # t},
   ai_decisions |-> SelectSeq(ds, LAMBDA d : d.tenant # t),
   ai_decision_context_docs |-> {r \in cds : r.tenant # t},
   ai_decision_context_chunks |-> {r \in ccs : r.tenant # t}]

C11_TenantBoundary ==
  [][/\ OtherTenantsRows(response'.tenant, documents, jobs, chunks, ai_decisions,
                         ai_decision_context_docs, ai_decision_context_chunks)
          = OtherTenantsRows(response'.tenant, documents', jobs', chunks', ai_decisions',
                             ai_decision_context_docs', ai_decision_context_chunks')
     /\ (response'.op = "get_document_status" /\ response'.status = 200)
          => response'.row.tenant = response'.tenant
     /\ (response'.op = "query_decisions" /\ response'.status = 200)
          => \A i \in 1..Len(response'.decisions) :
               response'.decisions[i].tenant = response'.tenant]_vars

\* The premises of C12 on the call that was answered: authentication enabled,
\* HS256 allowed, a bearer token of three decodable segments signed with
\* HS256 under the configured secret, exp not expired, issuer and audience as
\* configured, and the tenant claims covering the tenant of the request
C12_Premise ==
  /\ auth.pc = "answered"
  /\ auth.config.auth_enabled
  /\ "HS256" \in auth.config.auth_algorithms
  /\ lower(auth.request.scheme) = "bearer"
  /\ auth.request.token.shape = "jwt"
  /\ auth.request.token.alg = "HS256"
  /\ auth.config.auth_jwt_shared_secret # None
  /\ auth.request.token.signed_with = auth.config.auth_jwt_shared_secret
  /\ auth.request.token.claims.exp.type = "int"
  /\ time_now <= auth.request.token.claims.exp.num + skew
  /\ str_or_empty(auth.request.token.claims.iss) = auth.config.auth_issuer
  /\ _normalize_aud_claim(auth.request.token.claims.aud) \cap auth.config.auth_audiences # {}
  /\ \/ auth.tenant = None
     \/ {auth.tenant, "*"} \cap _extract_tenant_values(auth.request.token.claims,
                                                      auth.config.auth_tenant_claims) # {}

C12_PrincipalOfSub ==
  /\ auth.response.returned = "AuthPrincipal"
  /\ auth.request.token.claims.sub.type = "str"
  /\ auth.response.subject = auth.request.token.claims.sub.str

\* C12: for every HS256 token under the configured secret with an unexpired
\* exp and issuer, audience and tenant claims that satisfy the configuration,
\* require_auth returns a principal whose subject is the token's sub.
C12_ValidTokenYieldsPrincipal == C12_Premise => C12_PrincipalOfSub

\* C12 as amended: the same for the tokens that also carry a non-empty sub
\* and whose nbf and iat, when present, are not in the future.
C12_ValidTokenWithSubYieldsPrincipal ==
  ( /\ C12_Premise
    /\ str_or_empty(auth.request.token.claims.sub) # None
    /\ ~(auth.request.token.claims.nbf.type = "int"
         /\ time_now + skew < auth.request.token.claims.nbf.num)
    /\ ~(auth.request.token.claims.iat.type = "int"
         /\ auth.request.token.claims.iat.num > time_now + skew) )
  => C12_PrincipalOfSub

C12_Witness ==
  /\ C12_Premise
  /\ auth.tenant = "t1"
  /\ auth.request.token.claims.nbf.type = "int"
  /\ auth.response.returned = "AuthPrincipal"
  /\ auth.response.subject = "u1"

\* The failures of token verification that C14 lists, on the token that was
\* answered
C14_ListedFailure ==
  LET token == auth.request.token
      config == auth.config
  IN  \/ token.shape # "jwt"
      \/ token.alg \notin config.auth_algorithms
      \/ token.alg = "HS256" /\ config.auth_jwt_shared_secret = None
      \/ token.alg = "HS256" /\ token.signed_with # config.auth_jwt_shared_secret
      \/ token.claims.exp.type # "int"
      \/ time_now > token.claims.exp.num + skew
      \/ token.claims.nbf.type = "int" /\ time_now + skew < token.claims.nbf.num
      \/ token.claims.iat.type = "int" /\ token.claims.iat.num > time_now + skew
      \/ str_or_empty(token.claims.iss) # config.auth_issuer
      \/ _normalize_aud_claim(token.claims.aud) \cap config.auth_audiences = {}

\* C14: every listed failure of token verification is answered with an
\* HTTPException of status 401.  Tokens of an allowed RS256, whose key has
\* to be resolved before anything else is looked at, are left aside.
C14_VerificationFailureIs401 ==
  ( /\ auth.pc = "answered"
    /\ auth.config.auth_enabled
    /\ lower(auth.request.scheme) = "bearer"
    /\ ~(auth.request.token.shape = "jwt" /\ auth.request.token.alg = "RS256"
         /\ "RS256" \in auth.config.auth_algorithms)
    /\ C14_ListedFailure )
  => auth.response = HTTPException(401)

\* A step in which an admin operation took effect: a policy, a hold or the
\* enforcement call changed
AdminEffect ==
  \/ retention_policies' # retention_policies
  \/ legal_holds' # legal_holds
  \/ run' # run

\* The request carries the configured admin key
CorrectAdminKey ==
  /\ auth.config.admin_api_key # None
  /\ auth.request.x_admin_key = auth.config.admin_api_key

\* The request carries a valid principal: a bearer token that authentication
\* accepts, with a subject
ValidPrincipal ==
  /\ lower(auth.request.scheme) = "bearer"
  /\ auth.request.token.shape = "jwt"
  /\ auth.request.token.alg \in auth.config.auth_algorithms
  /\ auth.request.token.signed_with = auth.config.auth_jwt_shared_secret
  /\ _verify_registered_claims(auth.request.token.claims, auth.config) = 200
  /\ str_or_empty(auth.request.token.claims.sub) # None

Verified == verification # NoVerification

\* The stored business payload is not the one that was written: a value
\* changed, or a top-level key outside the trailer was added or removed
PayloadAltered == unsigned_payload(report_document) # unsigned_payload(report_written)

\* The trailer fields of `keys` are as they were written
AsWritten(keys) == \A k \in keys : get(report_document, k) = get(report_written, k)

\* C15: when the business payload of a written artifact was altered and its
\* four trailer fields were left as written, verify_decision_artifact
\* returns verified = false with hash_mismatch among the errors.
C15_AlteredPayloadIsHashMismatch ==
  (Verified /\ PayloadAltered /\ AsWritten(TrailerKeys))
    => /\ ~verification.verified
       /\ "hash_mismatch" \in Range(verification.errors)

C15_Witness ==
  /\ Verified
  /\ AsWritten(TrailerKeys)
  /\ DOMAIN report_document = DOMAIN report_written
  /\ report_document["decisions"] # report_written["decisions"]
  /\ report_config.audit_report_signing_key # None
  /\ "hash_mismatch" \in Range(verification.errors)

\* The request pins nothing the written document does not have
ExpectationsMet ==
  /\ verification.request.expected_report_hash_sha256
       \in {None, get(report_written, "report_hash_sha256").str}
  /\ verification.request.expected_signature_key_id
       \in {None, get(report_written, "signature_key_id").str}

\* C16: a document read back as it was written verifies with hash_match,
\* signature_valid and verified all true; a changed signature or a changed
\* payload value, the rest of the trailer being as written, makes verified
\* false; and the recomputed hash is the written one exactly when nothing
\* but the four trailer fields was touched.
C16_SignVerifyRoundTrip ==
  Verified =>
    /\ (report_document = report_written /\ ExpectationsMet)
         => /\ verification.hash_match
            /\ verification.signature_valid
            /\ verification.verified
    /\ ( /\ AsWritten(TrailerKeys \ {"signature"})
         /\ PayloadAltered \/ ~AsWritten({"signature"}) )
         => ~verification.verified
    /\ (verification.computed_report_hash_sha256 = get(report_written, "report_hash_sha256").str)
         <=> ~PayloadAltered

C16_Witness ==
  /\ Verified
  /\ report_document = report_written
  /\ report_config.audit_report_signing_key # None
  /\ verification.signature_alg = "hmac-sha256"
  /\ verification.verified

SignatureReasons ==
  {"signing_key_not_configured", "missing_signature", "signature_mismatch",
   "unsupported_signature_alg"}

\* C17: whenever verify_decision_artifact returns verified = false its errors
\* are non-empty, hash_mismatch is among them exactly when the recomputed hash
\* is not the stored one, and a signature reason is among them exactly when
\* the signature is not valid.
C17_FailuresAreItemized ==
  (Verified /\ ~verification.verified)
    => /\ verification.errors # <<>>
       /\ ("hash_mismatch" \in Range(verification.errors)) <=> ~verification.hash_match
       /\ (Range(verification.errors) \cap SignatureReasons # {})
            <=> ~verification.signature_valid

\* The links of a decision row in the two context tables
LinkedDocs(links, id) == {r.doc_id : r \in {x \in links : x.decision_ref_id = id}}

LinkedChunks(links, id) == {r.chunk_id : r \in {x \in links : x.decision_ref_id = id}}

\* What a successful ingest of `payload` leaves in the ledger
IngestedAsPayload(payload) ==
  LET result == ingest_decision_result(200, payload)
      before == decision_index(ai_decisions, payload.tenant, payload.decision_id)
      after == decision_index(result.ai_decisions, payload.tenant, payload.decision_id)
      row == result.ai_decisions[after]
  IN  /\ after # 0
      /\ \A i, j \in 1..Len(result.ai_decisions) :
           ( /\ result.ai_decisions[i].tenant = result.ai_decisions[j].tenant
             /\ result.ai_decisions[i].decision_id = result.ai_decisions[j].decision_id )
             => i = j
      /\ row.model = payload.model
      /\ row.updated_at = now
      /\ LinkedDocs(result.ai_decision_context_docs, row.id) = Range(payload.context_docs)
      /\ LinkedChunks(result.ai_decision_context_chunks, row.id)
           = Range(payload.context_chunks)
      /\ IF before = 0
         THEN /\ Len(result.ai_decisions) = Len(ai_decisions) + 1
              /\ row.created_at = now
         ELSE /\ Len(result.ai_decisions) = Len(ai_decisions)
              /\ after = before
              /\ row.created_at = ai_decisions[before].created_at
              /\ row.updated_at >= ai_decisions[before].updated_at
      /\ \A i \in 1..Len(ai_decisions) :
           i # before => result.ai_decisions[i] = ai_decisions[i]

\* C18: the ledger holds one record per (tenant, decision_id), and every
\* accepted ingest leaves one too: a second ingest of a (tenant, decision_id)
\* keeps the row's created_at, sets updated_at to the time of the call, and
\* leaves the other fields and the context links equal to the payload.
C18_UpsertIsIdempotentOnKey ==
  /\ \A i, j \in 1..Len(ai_decisions) :
       ( /\ ai_decisions[i].tenant = ai_decisions[j].tenant
         /\ ai_decisions[i].decision_id = ai_decisions[j].decision_id ) => i = j
  /\ \A payload \in DecisionPayloads :
       ingest_decision_result(200, payload).response.status = 200
         => IngestedAsPayload(payload)

C18_Witness ==
  /\ response # NoResponse
  /\ response.op = "ingest_decision"
  /\ response.status = 200
  /\ response.created_at < response.updated_at
  /\ Len(ai_decisions) = 2
  /\ \E i \in 1..2 :
       /\ ai_decisions[i].created_at < ai_decisions[i].updated_at
       /\ ai_decisions[i].model = "m2"
       /\ LinkedDocs(ai_decision_context_docs, ai_decisions[i].id) = {"d1", "d2"}

\* Some id of context_docs is not a known document of the payload's tenant
UnknownContextDocs(payload) ==
  {d \in Range(payload.context_docs) : documents[d].tenant # payload.tenant}

\* C19: when some id of context_docs is not a known document of the
\* request's tenant, ingest_decision answers 404 with missing_doc_ids listing
\* every unknown id, and the decision rows and both link tables are as
\* before the call.
C19_UnknownDocsRejectedWhole ==
  \A payload \in DecisionPayloads :
    UnknownContextDocs(payload) # {}
      => LET result == ingest_decision_result(200, payload)
         IN  /\ result.response.status = 404
             /\ "missing_doc_ids" \in DOMAIN result.response.detail
             /\ Range(result.response.detail.missing_doc_ids) = UnknownContextDocs(payload)
             /\ result.ai_decisions = ai_decisions
             /\ result.ai_decision_context_docs = ai_decision_context_docs
             /\ result.ai_decision_context_chunks = ai_decision_context_chunks

C19_Witness ==
  /\ response # NoResponse
  /\ response.op = "ingest_decision"
  /\ response.status = 404
  /\ "missing_doc_ids" \in DOMAIN response.detail
  /\ response.detail.missing_doc_ids = <<"d2">>
  /\ Len(ai_decisions) = 1
  /\ documents["d1"].tenant = "t1"

\* C20: when a request has unknown context_chunks ids and also
\* context_chunks ids whose document is outside context_docs, the error of
\* ingest_decision lists every missing chunk id and every mismatched chunk
\* id, in two lists of the same error.
C20_MissingAndMismatchedBothListed ==
  \A payload \in DecisionPayloads :
    LET validated == _validate_context_chunks(payload.tenant, payload.context_chunks,
                                              payload.context_docs)
        result == ingest_decision_result(200, payload)
    IN  ( /\ UnknownContextDocs(payload) = {}
          /\ validated.missing # <<>>
          /\ validated.mismatched # {} )
          => /\ result.response.status \in {400, 404}
             /\ "missing_chunk_ids" \in DOMAIN result.response.detail
             /\ "mismatched_chunk_ids" \in DOMAIN result.response.detail
             /\ Range(result.response.detail.missing_chunk_ids) = Range(validated.missing)
             /\ result.response.detail.mismatched_chunk_ids = validated.mismatched

\* What the committed tables hold of the decision (tenant, decision_id): its
\* payload fields and its links, None when there is no row
StoredDecision(rows, doc_links, chunk_links, tenant, decision_id) ==
  LET i == decision_index(rows, tenant, decision_id)
  IN  IF i = 0 THEN [model |-> None, context_docs |-> {}, context_chunks |-> {}]
      ELSE [model |-> rows[i].model,
            context_docs |-> LinkedDocs(doc_links, rows[i].id),
            context_chunks |-> LinkedChunks(chunk_links, rows[i].id)]

\* C21: every step of an ingest, its failure included, leaves each decision
\* of the committed tables as it was, or, at the commit, with the row fields
\* and the full context-doc and context-chunk links of the ingest's payload.
C21_IngestIsAtomic ==
  [][\A tenant \in Tenants, decision_id \in DecisionIds :
       LET before == StoredDecision(ai_decisions, ai_decision_context_docs,
                                    ai_decision_context_chunks, tenant, decision_id)
           after == StoredDecision(ai_decisions', ai_decision_context_docs',
                                   ai_decision_context_chunks', tenant, decision_id)
       IN  \/ after = before
           \/ /\ txn.pc = "commit"
              /\ txn' = NoTxn
              /\ tenant = txn.payload.tenant
              /\ decision_id = txn.payload.decision_id
              /\ after = [model |-> txn.payload.model,
                          context_docs |-> Range(txn.payload.context_docs),
                          context_chunks |-> Range(txn.payload.context_chunks)]]_vars

\* A re-ingest with other fields and fewer links died after it had rewritten
\* the row and the context-doc links; the decision is as the first ingest
\* left it
C21_Witness ==
  /\ response # NoResponse
  /\ response.op = "ingest_decision"
  /\ response.status = 500
  /\ response.at = "replace_chunks"
  /\ response.decision_id = "x1"
  /\ StoredDecision(ai_decisions, ai_decision_context_docs, ai_decision_context_chunks,
                    "t1", "x1")
       = [model |-> "m2", context_docs |-> {"d1", "d2"}, context_chunks |-> {}]

\* C22: every context-doc link of a stored decision names a document of the
\* decision's tenant, and every context-chunk link names a stored chunk of
\* that tenant whose document is one of the decision's context docs.
C22_LinksAreReferentiallySound ==
  /\ \A l \in ai_decision_context_docs :
       /\ \E i \in 1..Len(ai_decisions) :
            ai_decisions[i].id = l.decision_ref_id /\ ai_decisions[i].tenant = l.tenant
       /\ documents[l.doc_id].tenant = l.tenant
  /\ \A l \in ai_decision_context_chunks :
       /\ \E i \in 1..Len(ai_decisions) :
            ai_decisions[i].id = l.decision_ref_id /\ ai_decisions[i].tenant = l.tenant
       /\ \E c \in chunks :
            /\ c.chunk_id = l.chunk_id
            /\ c.tenant = l.tenant
            /\ c.doc_id \in LinkedDocs(ai_decision_context_docs, l.decision_ref_id)

\* A decision cites the second chunk of d1 and a reprocessing of d1 has
\* just been refused
C22_Witness ==
  /\ \E l \in ai_decision_context_chunks : l.chunk_id = "d1:00001"
  /\ response.op = "process_direct"
  /\ response.status = 500
  /\ documents["d1"].tenant # None

\* The columns of a catalog row that its insert sets for good
FirstInsert(row) ==
  [artifact_id |-> row.artifact_id, tenant |-> row.tenant,
   artifact_type |-> row.artifact_type, gs_uri |-> row.gs_uri,
   object_generation |-> row.object_generation,
   report_hash_sha256 |-> row.report_hash_sha256, signature_alg |-> row.signature_alg,
   signature_key_id |-> row.signature_key_id, created_by |-> row.created_by,
   created_at |-> row.created_at]

\* C23: a write to a path that holds an object is answered 409 and changes
\* neither the bucket nor the catalog; a write lands only where no object
\* was; and every step leaves each catalog row in place, one row per
\* (tenant, artifact_type, gs_uri), with the hash, signature fields,
\* generation and created_by of its first insert.
C23_ArtifactsAreWriteOnce ==
  [][/\ \A i \in 1..Len(audit_artifacts) :
          /\ i <= Len(audit_artifacts')
          /\ FirstInsert(audit_artifacts'[i]) = FirstInsert(audit_artifacts[i])
     /\ \A i, j \in 1..Len(audit_artifacts') :
          ( /\ audit_artifacts'[i].tenant = audit_artifacts'[j].tenant
            /\ audit_artifacts'[i].artifact_type = audit_artifacts'[j].artifact_type
            /\ audit_artifacts'[i].gs_uri = audit_artifacts'[j].gs_uri ) => i = j
     /\ \A u \in Uris :
          (storage'[u] # storage[u] /\ storage'[u].generation # NULL)
            => storage[u].generation = NULL
     /\ ( /\ response' # response
          /\ response'.op = "export_decisions"
          /\ storage[response'.gs_uri].generation # NULL )
          => /\ response'.status = 409
             /\ storage' = storage
             /\ audit_artifacts' = audit_artifacts]_vars

\* The object of a catalog row was removed by retention, its path was
\* written again, and a third write to the path has been answered 409
C23_Witness ==
  /\ response.op = "export_decisions"
  /\ response.status = 409
  /\ \E i \in 1..Len(audit_artifacts) :
       /\ audit_artifacts[i].gs_uri = response.gs_uri
       /\ audit_artifacts[i].deleted_at # NULL
       /\ storage[response.gs_uri].generation # NULL
       /\ storage[response.gs_uri].generation # audit_artifacts[i].object_generation

\* The decisions of the payload's tenant that a query with the given context
\* filters returns once the payload has been ingested
MatchesAfter(payload, context_docs, context_chunks) ==
  LET result == ingest_decision_result(200, payload)
  IN  payload.decision_id
        \in context_filter(result.ai_decisions, result.ai_decision_context_docs,
                           result.ai_decision_context_chunks, payload.tenant,
                           context_docs, context_chunks)

\* C24: after an accepted ingest the links of its decision are the ids of the
\* request and no others, whatever links the decision had before; a query
\* filtered on one document or one chunk returns the decision exactly when
\* the request named that id; the links of the other decisions are untouched.
C24_IngestIsAuthoritativeForContext ==
  \A payload \in DecisionPayloads :
    LET result == ingest_decision_result(200, payload)
        i == decision_index(result.ai_decisions, payload.tenant, payload.decision_id)
        id == result.ai_decisions[i].id
    IN  result.response.status = 200
          => /\ {l.doc_id : l \in {x \in result.ai_decision_context_docs :
                                     x.decision_ref_id = id}}
                  = Range(payload.context_docs)
             /\ {l.chunk_id : l \in {x \in result.ai_decision_context_chunks :
                                       x.decision_ref_id = id}}
                  = Range(payload.context_chunks)
             /\ \A doc_id \in LedgerDocs \cup {UnknownDoc} :
                  MatchesAfter(payload, <<doc_id>>, <<>>)
                    <=> doc_id \in Range(payload.context_docs)
             /\ \A chunk_id \in ChunkIds :
                  MatchesAfter(payload, <<>>, <<chunk_id>>)
                    <=> chunk_id \in Range(payload.context_chunks)
             /\ {l \in result.ai_decision_context_docs : l.decision_ref_id # id}
                  = {l \in ai_decision_context_docs : l.decision_ref_id # id}
             /\ {l \in result.ai_decision_context_chunks : l.decision_ref_id # id}
                  = {l \in ai_decision_context_chunks : l.decision_ref_id # id}

\* A stored decision has two context docs and a context chunk, and a request
\* for the same decision that names one document and no chunk is accepted
C24_Witness ==
  /\ response.op = "ingest_decision"
  /\ response.status = 200
  /\ \E i \in 1..Len(ai_decisions) :
       /\ ai_decisions[i].decision_id = "x1"
       /\ LinkedDocs(ai_decision_context_docs, ai_decisions[i].id) = {"d1", "d2"}
       /\ LinkedChunks(ai_decision_context_chunks, ai_decisions[i].id) = {"d1:00000"}
  /\ \E payload \in DecisionPayloads :
       /\ payload.tenant = "t1"
       /\ payload.decision_id = "x1"
       /\ payload.context_docs = <<"d1">>
       /\ payload.context_chunks = <<>>
       /\ ingest_decision_result(200, payload).response.status = 200
       /\ ~MatchesAfter(payload, <<"d2">>, <<>>)

\* The index of the hold hold_id, 0 when there is no such row
HoldIndex(holds, hold_id) ==
  IF \E i \in 1..Len(holds) : holds[i].hold_id = hold_id
  THEN CHOOSE i \in 1..Len(holds) : holds[i].hold_id = hold_id
  ELSE 0

\* The step is an answer of release_legal_hold
ReleaseAnswered == response' # response /\ response'.op = "release_legal_hold"

\* C25: the active holds are the rows whose released_at is null; every step
\* keeps every hold row, with its released_at once it is set; a released_at
\* is set only by a release, which answers it; a release of a released hold
\* changes nothing and answers the same released_at; a release of an unknown
\* hold_id answers 404 and changes nothing; a row appears only active.
C25_LegalHoldLifecycle ==
  [][/\ Range(_list_legal_holds(None, TRUE))
          = {h \in Range(legal_holds) : h.released_at = NULL}
     /\ Len(legal_holds') >= Len(legal_holds)
     /\ \A i \in 1..Len(legal_holds) :
          /\ [legal_holds'[i] EXCEPT !.released_at = NULL]
               = [legal_holds[i] EXCEPT !.released_at = NULL]
          /\ legal_holds[i].released_at # NULL
               => legal_holds'[i].released_at = legal_holds[i].released_at
          /\ legal_holds'[i].released_at # legal_holds[i].released_at
               => /\ response'.op = "release_legal_hold"
                  /\ response'.status = 200
                  /\ response'.hold_id = legal_holds[i].hold_id
                  /\ response'.released_at = now
                  /\ legal_holds'[i].released_at = now
     /\ \A i \in (Len(legal_holds) + 1)..Len(legal_holds') :
          legal_holds'[i].released_at = NULL
     /\ ReleaseAnswered =>
          LET i == HoldIndex(legal_holds, response'.hold_id)
          IN  IF i = 0
              THEN response'.status = 404 /\ legal_holds' = legal_holds
              ELSE /\ response'.status = 200
                   /\ response'.released_at = legal_holds'[i].released_at
                   /\ legal_holds[i].released_at # NULL => legal_holds' = legal_holds]_vars

\* A hold released on an earlier day has been asked to be released, and the
\* answer carries the day of its release
C25_Witness ==
  /\ response.op = "release_legal_hold"
  /\ response.status = 200
  /\ response.released_at < now
  /\ \E i \in 1..Len(legal_holds) :
       /\ legal_holds[i].hold_id = response.hold_id
       /\ legal_holds[i].released_at = response.released_at

\* The callers whose last completed call is a try_enter that returned True:
\* successful try_enter calls minus leave calls
Entered == {c \in Callers : gate.pc[c] \in {"inside", "leaving"}}

\* The callers that hold a permit of the semaphore
Holders == {c \in Callers : gate.pc[c] \in {"entering", "inside", "leaving"}}

\* try_enter of caller c returns True, returns False, in this step
ReturnsTrue(c) == gate.pc[c] = "entering" /\ gate'.pc[c] = "inside"

ReturnsFalse(c) ==
  /\ gate.pc[c] = "idle"
  /\ gate'.pc[c] = "idle"
  /\ gate.result[c] # "False"
  /\ gate'.result[c] = "False"

\* No call of the gate is between its two statements
Quiescent == \A c \in Callers : gate.pc[c] \in {"idle", "inside"}

\* C26 as stated: try_enter returns True iff fewer than limit entries are
\* active at the call, active is the number of successful try_enter calls
\* minus the number of leave calls, and 0 <= active <= limit, in every state.
C26_GateCountsActiveEntries ==
  [][/\ 0 <= gate._active /\ gate._active <= gate.limit
     /\ gate._active = Cardinality(Entered)
     /\ \A c \in Callers :
          /\ (gate.pc[c] = "idle" /\ gate'.pc[c] = "entering") => gate._active < gate.limit
          /\ ReturnsFalse(c) => gate._active >= gate.limit]_vars

\* C26, amended: 0 <= active <= limit in every state; active counts the
\* callers between the count of their try_enter and the count of their
\* leave, never more than the permits taken; try_enter goes on to return
\* True iff fewer than limit callers hold a permit when it asks for one;
\* while no call is under way active is successful try_enter calls minus
\* leave calls and try_enter succeeds iff active < limit; a leave that has
\* returned leaves a permit free.
C26_GateCountsPermits ==
  [][/\ 0 <= gate._active /\ gate._active <= gate.limit
     /\ gate._active = Cardinality({c \in Callers : gate.pc[c] = "inside"})
     /\ gate._semaphore = gate.limit - Cardinality(Holders)
     /\ gate._active <= Cardinality(Holders)
     /\ Quiescent => gate._active = Cardinality(Entered)
     /\ \A c \in Callers :
          /\ (gate.pc[c] = "idle" /\ gate'.pc[c] = "entering")
               => Cardinality(Holders) < gate.limit
          /\ ReturnsFalse(c) => Cardinality(Holders) >= gate.limit
          /\ (Quiescent /\ ReturnsFalse(c)) => gate._active >= gate.limit
          /\ (Quiescent /\ gate.pc[c] = "idle" /\ gate._active < gate.limit)
               => ~ReturnsFalse(c)
          /\ ReturnsTrue(c) => gate'._active = gate._active + 1
          /\ (gate.pc[c] = "leaving" /\ gate'.pc[c] = "idle") => gate'._semaphore > 0]_vars

\* The gate is full, one caller has been turned away, and another has left
\* and got in again
C26_Witness ==
  /\ gate._active = gate.limit
  /\ Quiescent
  /\ \E c \in Callers : gate.pc[c] = "idle" /\ gate.result[c] = "False"
  /\ \E c \in Callers : gate.pc[c] = "inside"

\* What a call of _decode_claims in the present state answers on a token
\* while the endpoints answer as `discovery` and `key_set` say, together
\* with those three
DecodeCalls ==
  {[token |-> token, discovery |-> discovery, key_set |-> key_set,
    answer |-> _decode_claims_resolving(token, auth.config, oidc, discovery, key_set)] :
     token \in ResolveTokens, discovery \in Discoveries, key_set \in KeySets}

\* The call had to ask an endpoint for the discovery document or the key set
\* and did not get one it can use: the connection failed or timed out, the
\* answer was not JSON or not a JSON object, the discovery document had no
\* jwks_uri, or the key set was empty
KeyResolutionFailed(call) ==
  LET fetched == call.answer.fetched
  IN \/ /\ Len(fetched) >= 1
        /\ fetched[1] \notin JwksUrls
        /\ \/ call.discovery \in UpstreamFailures
           \/ call.discovery = DiscoveryDocument(None)
     \/ /\ Len(fetched) >= 1
        /\ fetched[Len(fetched)] \in JwksUrls
        /\ \/ call.key_set \in UpstreamFailures
           \/ call.key_set = KeySet(<<>>)

\* The key set the call had in the end for its URL
KeysOf(call) == call.answer._jwks_cache[call.answer.jwks_url].body.keys

\* The call had a key set for its URL, with a key for the kid of the token
KeyResolved(call) ==
  /\ call.token.shape = "jwt"
  /\ call.token.alg = "RS256"
  /\ call.answer.jwks_url # None
  /\ ~KeyResolutionFailed(call)
  /\ pick_jwk(KeysOf(call), call.token.kid).status = 200

ResolvedKey(call) == pick_jwk(KeysOf(call), call.token.kid).jwk

\* The call found the token at fault: it is malformed, its signature does
\* not verify under the configured secret or under the key that was resolved
\* for it, or a registered claim fails once the signature has verified
TokenRejected(call) ==
  LET token == call.token
  IN \/ token.shape # "jwt"
     \/ /\ token.alg = "HS256"
        /\ token.signed_with # auth.config.auth_jwt_shared_secret
     \/ /\ KeyResolved(call)
        /\ ResolvedKey(call).n # None
        /\ token.signed_with # ResolvedKey(call).n
     \/ /\ \/ /\ token.alg = "HS256"
              /\ token.signed_with = auth.config.auth_jwt_shared_secret
           \/ /\ KeyResolved(call)
              /\ token.signed_with = ResolvedKey(call).n
        /\ _verify_registered_claims(token.claims, auth.config) # 200

\* C27: a call of _decode_claims in which key discovery or the key-set fetch
\* failed answers 503 and never 401, and a call that found the token
\* malformed, badly signed or failing a registered claim answers 401 and
\* never 503, whatever the caches hold.
C27_ResolutionFailureIs503TokenFailureIs401 ==
  \A call \in DecodeCalls :
    /\ KeyResolutionFailed(call) => call.answer.status = 503
    /\ TokenRejected(call) => call.answer.status = 401

\* The time claims of the token that _decode_claims answered last, once its
\* signature had verified
TimeClaimsChecked ==
  /\ oidc.call.op = "_decode_claims"
  /\ oidc.call.token.alg \in {"HS256", "RS256"}
  /\ oidc.call.status \in {200, 401}

TokenExpMissing == oidc.call.token.claims.exp.type # "int"
TokenExpired == ~TokenExpMissing /\ time_now > oidc.call.token.claims.exp.num + 30
TokenNotYetValid ==
  /\ oidc.call.token.claims.nbf.type = "int"
  /\ oidc.call.token.claims.nbf.num > time_now + 30
TokenIssuedInFuture ==
  /\ oidc.call.token.claims.iat.type = "int"
  /\ oidc.call.token.claims.iat.num > time_now + 30

\* C28: a token of either algorithm whose signature, issuer and audience are
\* good is rejected iff exp is absent or not a number, or now > exp + 30, or
\* nbf is a number above now + 30, or iat is a number above now + 30; the
\* rejection names the first of these checks that fails, so now = exp + 30,
\* nbf = now + 30 and iat = now + 30 are accepted.
C28_TimeClaimsUseSkew ==
  TimeClaimsChecked =>
    /\ oidc.call.status = 401 <=> (TokenExpMissing \/ TokenExpired \/ TokenNotYetValid \/ TokenIssuedInFuture)
    /\ oidc.call.detail = "Invalid token: missing exp" <=> TokenExpMissing
    /\ oidc.call.detail = "Invalid token: expired" <=> TokenExpired
    /\ oidc.call.detail = "Invalid token: not yet valid"
         <=> (~TokenExpMissing /\ ~TokenExpired /\ TokenNotYetValid)
    /\ oidc.call.detail = "Invalid token: issued in future"
         <=> (~TokenExpMissing /\ ~TokenExpired /\ ~TokenNotYetValid /\ TokenIssuedInFuture)
    /\ oidc.call.status = 200 <=> oidc.call.detail = None

\* An RS256 token at the three boundaries is accepted
C28_Witness ==
  /\ TimeClaimsChecked
  /\ oidc.call.token.alg = "RS256"
  /\ oidc.call.token.claims.exp = Num(time_now - 30)
  /\ oidc.call.token.claims.nbf = Num(time_now + 30)
  /\ oidc.call.token.claims.iat = Num(time_now + 30)
  /\ oidc.call.status = 200

\* A step is a call of _resolve_signing_jwk
ResolutionStep ==
  /\ oidc'.call.op = "_resolve_signing_jwk"
  /\ oidc'.time = oidc.time
  /\ oidc'.call # oidc.call \/ oidc'._jwks_cache # oidc._jwks_cache

\* The entry of a URL written by a fetch at time t lives until t + 300
EntryLives(jwks_url) ==
  /\ oidc._jwks_cache[jwks_url].expiry # NULL
  /\ oidc.time < oidc._jwks_cache[jwks_url].expiry

WrittenSigned ==
  /\ report_written # NoReport
  /\ get(report_written, "signature_alg") = Str("hmac-sha256")
  /\ report_config.audit_report_signing_key # None
  /\ get(report_written, "signature").str
       = _hmac_sha256_b64(report_config.audit_report_signing_key,
                          unsigned_payload(report_written))

\* C30: for an artifact written with signature_alg hmac-sha256 and verified
\* under the same signing key, every stored document that differs from the
\* written one, in the payload or in any of the four trailer fields, yields
\* verified = false.
C30_AnyDifferenceFailsVerification ==
  (Verified /\ WrittenSigned /\ report_document # report_written)
    => ~verification.verified

\* The n-th artifact is in the catalog and not deleted, its tenant and type
\* have a policy, its retention period is over and no active hold matches it
Deletable(n) ==
  \E i \in 1..Len(audit_artifacts) :
    LET a == audit_artifacts[i]
        policy == retention_policies[<<a.tenant, a.artifact_type>>]
    IN /\ a.artifact_id = ArtifactIds[n]
       /\ a.deleted_at = NULL
       /\ policy # NoPolicy
       /\ a.created_at + policy.retain_days <= now
       /\ \A h \in 1..Len(legal_holds) :
            \/ legal_holds[h].released_at # NULL
            \/ ~HoldMatches(legal_holds[h], a.tenant, a.artifact_id, a.gs_uri, a.metadata)

\* C31: under non-dry-run enforcement runs that are repeated for ever with
\* the same limit and whose storage deletes succeed, no artifact stays for
\* ever in the catalog with a policy, expired and matched by no active hold:
\* it is eventually deleted.
C31_DeletableIsEventuallyDeleted ==
  \A n \in 1..MaxUploads : []<>~Deletable(n)

\* A stored object of the reports bucket has a live catalog row carrying its
\* generation and its report hash
Catalogued(u) ==
  \E i \in 1..Len(audit_artifacts) :
    /\ audit_artifacts[i].gs_uri = u
    /\ audit_artifacts[i].deleted_at = NULL
    /\ audit_artifacts[i].object_generation = storage[u].generation
    /\ audit_artifacts[i].report_hash_sha256 = storage[u].report_hash_sha256

\* C32: every object that exists in the reports bucket has a catalog row that
\* is not soft-deleted and carries the generation and the report hash of the
\* object, after any sequence of exports, packages and enforcement runs.
C32_StoredObjectsAreCatalogued ==
  \A u \in Uris : storage[u].generation # NULL => Catalogued(u)

\* The checks of require_auth that have returned are the first ones of the
\* order algorithm, signature, registered claims, sub, tenant
PassedInOrder ==
  /\ Len(auth.passed) <= Len(Checks)
  /\ \A i \in 1..Len(auth.passed) : auth.passed[i] = Checks[i]

Passed(check) == \E i \in 1..Len(auth.passed) : auth.passed[i] = check

\* The key set the resolver holds for the URL it fetched last
FetchedKeys ==
  UNION {Range(oidc._jwks_cache[jwks_url].body.keys) : jwks_url \in JwksUrls}

\* The token was signed with the shared secret (HS256) or with a key of the
\* fetched key set that carries its kid (RS256)
SignedWithKeyOfAlgorithm ==
  LET token == auth.request.token
  IN \/ /\ token.alg = "HS256"
        /\ auth.config.auth_jwt_shared_secret # None
        /\ token.signed_with = auth.config.auth_jwt_shared_secret
     \/ /\ token.alg = "RS256"
        /\ \E jwk \in FetchedKeys : jwk.kid = token.kid /\ jwk.n = token.signed_with

\* The key resolver was not called: it has fetched and cached nothing
NothingFetched ==
  /\ oidc.call.op = None
  /\ \A issuer \in Issuers : oidc._openid_cache[issuer].expiry = NULL
  /\ \A jwks_url \in JwksUrls : oidc._jwks_cache[jwks_url].expiry = NULL

\* The status require_auth answers when _decode_claims is taken in one piece,
\* against the endpoints as the call found them
StatusInOnePiece ==
  LET token == auth.request.token
      discovery == IF oidc.call.op = None THEN Failing("timeout") ELSE oidc.call.discovery
      key_set == IF oidc.call.op = None THEN Failing("timeout") ELSE oidc.call.key_set
      state ==
        [time |-> oidc.time,
         _openid_cache |-> [issuer \in Issuers |-> NoEntry],
         _jwks_cache |-> [jwks_url \in JwksUrls |-> NoEntry]]
      decoded == _decode_claims_resolving(token, auth.config, state, discovery, key_set)
  IN IF decoded.status # 200 THEN decoded.status
     ELSE IF str_or_empty(token.claims.sub) = None THEN 401
     ELSE _authorize_tenant(token.claims, auth.tenant, auth.config)

\* C33: require_auth returns a principal only after the algorithm was found
\* allowed, the signature verified with the key of that algorithm, the
\* registered claims, the subject and the tenant passed, in this order; the
\* subject of a token whose signature did not verify is never returned, and
\* a token with a disallowed algorithm is rejected with no key used and no
\* fetch made.
C33_ChecksRunInOrder ==
  LET token == auth.request.token
      config == auth.config
  IN /\ PassedInOrder
     /\ auth.response.returned = "AuthPrincipal" => auth.passed = Checks
     /\ auth.response.subject # None => Passed("signature")
     /\ Passed("algorithm") => token.alg \in config.auth_algorithms
     /\ Passed("signature") =>
          /\ SignedWithKeyOfAlgorithm
          /\ auth.verified_with = token.signed_with
     /\ Passed("registered_claims") =>
          /\ token.claims.exp.type = "int"
          /\ time_now <= token.claims.exp.num + 30
          /\ token.claims.iss = Str(config.auth_issuer)
          /\ token.claims.aud = Str("api")
     /\ Passed("sub") => token.claims.sub.type = "str" /\ token.claims.sub.str # None
     /\ Passed("tenant") => token.claims.tenant = Str(auth.tenant)
     /\ ~Passed("algorithm") =>
          /\ auth.verified_with = None
          /\ NothingFetched
     /\ (auth.pc = "answered" /\ token.alg \notin config.auth_algorithms) =>
          /\ auth.response = HTTPException(401)
          /\ auth.passed = <<>>
     /\ auth.pc = "answered" => auth.response.status = StatusInOnePiece

\* An RS256 token passed every check with a key fetched for it and the
\* principal was returned
C33_Witness ==
  /\ auth.response.returned = "AuthPrincipal"
  /\ auth.request.token.alg = "RS256"
  /\ auth.passed = Checks
  /\ oidc.call.fetched # <<>>

\* The bytes of a message hold an IngestMessage, directly or as the "event"
\* of a wrapper
HoldsIngestMessage(data) ==
  \/ data = Direct("d1")
  \/ data = Wrapped("d2")

\* The last call of replay_dlq republished the message: it parsed and its
\* publish returned
Republished(item) ==
  /\ HoldsIngestMessage(item.data)
  /\ pubsub.call.publish_ok[item.message_id]

InDlq(item) == \E i \in 1..Len(pubsub.dlq) : pubsub.dlq[i] = item

Received == Range(pubsub.call.received)

\* C34: after a call of replay_dlq, a message it pulled is gone from the
\* dead-letter subscription only if it parsed and was republished in that
\* call, a message whose parse or publish failed is still there, an answered
\* call has pulled = replayed + failed and acked = replayed = the messages
\* gone, and a call whose acknowledge failed answers 502 with its messages
\* republished and none acknowledged.
C34_AckOnlyWhatWasRepublished ==
  pubsub.call.op = "replay_dlq" =>
    LET call == pubsub.call
        gone == {item \in Range(call.before) : ~InDlq(item)}
    IN /\ gone \subseteq Received
       /\ \A item \in gone : Republished(item)
       /\ \A item \in Received : ~Republished(item) => InDlq(item)
       /\ call.status = 200 =>
            /\ call.pulled = Len(call.received)
            /\ call.pulled = call.replayed + call.failed
            /\ call.acked = call.replayed
            /\ call.acked = Cardinality(gone)
            /\ call.replayed = Cardinality({item \in Received : Republished(item)})
            /\ gone = {item \in Received : Republished(item)}
       /\ ((\E item \in Received : Republished(item)) /\ ~call.ack_ok) =>
            /\ call.status = 502
            /\ call.detail = "DLQ replay ack failed"
            /\ gone = {}
            /\ Len(pubsub.topic) >= Cardinality({item \in Received : Republished(item)})
       /\ call.status = 502 => gone = {}

\* A call pulled two messages, republished and acknowledged one, and left
\* the one that failed in the subscription
C34_Witness ==
  /\ pubsub.call.op = "replay_dlq"
  /\ pubsub.call.status = 200
  /\ pubsub.call.pulled = 2
  /\ pubsub.call.acked = 1
  /\ pubsub.call.failed = 1
  /\ Len(pubsub.dlq) = 1
  /\ Len(pubsub.topic) >= 1

\* The callers that took a permit and have not given it back
InFlight == {c \in Callers : gate.pc[c] # "idle"}

\* The callers inside _process_ingest_message
Processing == {c \in Callers : gate.pc[c] = "inside"}

\* C35: under every interleaving at most limit requests are inside
\* _process_ingest_message, a request is turned away only while limit
\* requests hold a permit, an admitted request calls leave exactly once
\* whether processing returned or raised, a request turned away calls it
\* never, leave never raises, and with no request in flight the gate has
\* active = 0 and every permit free.
C35_GateAdmitsAtMostLimitAndLeavesOnce ==
  /\ [](/\ Cardinality(Processing) <= gate.limit
        /\ \A c \in Callers :
             /\ gate.pc[c] # "RuntimeError"
             /\ gate.pc[c] \in {"entering", "inside", "finally"} => gate.leaves[c] = 0
             /\ gate.pc[c] = "leaving" => gate.leaves[c] = 1
             /\ gate.result[c] = "False" => gate.leaves[c] = 0
             /\ gate.result[c] \in ProcessingOutcomes =>
                  gate.leaves[c] = IF gate.pc[c] = "finally" THEN 0 ELSE 1
        /\ InFlight = {} => gate._active = 0 /\ gate._semaphore = gate.limit)
  /\ [][\A c \in Callers :
          /\ (gate.result[c] # "False" /\ gate'.result[c] = "False")
               => Cardinality(InFlight) = gate.limit /\ gate'.pc[c] = "idle"
          /\ (gate.pc[c] # "idle" /\ gate'.pc[c] = "idle") => gate.leaves[c] = 1]_vars

\* The gate is full with one request whose processing raised in its leave,
\* and the request of one caller more has been turned away
C35_Witness ==
  /\ Cardinality(InFlight) = gate.limit
  /\ \E c \in Callers : gate.pc[c] = "leaving" /\ gate.result[c] = "raised"
  /\ \E c \in Callers : gate.pc[c] = "idle" /\ gate.result[c] = "False"

\* The four cases in which a push request may be processed
PushAdmissible(envelope, request, config) ==
  \/ ~config.auth_enabled
  \/ config.auth_allow_unauthenticated_pubsub /\ auth_header(request) = None
  \/ require_auth(request, config, envelope.tenant).returned # "raised"
  \/ /\ require_auth(request, config, envelope.tenant).returned = "raised"
     /\ auth_header(request) # None
     /\ config.pubsub_push_auth_enabled
     /\ require_pubsub_push_auth(request, config).returned # "raised"

\* The errors the two authentications of a push request raise
AuthenticationErrors(envelope, request, config) ==
  {require_auth(request, config, envelope.tenant).status,
   require_pubsub_push_auth(request, config).status} \ {200}

\* C36: a push request whose envelope decodes is handed to the gate exactly
\* when authentication is disabled, or unauthenticated push is allowed and it
\* has no Authorization header, or require_auth returns for the message's
\* tenant, or require_auth raised, a header is present, push auth is enabled
\* and require_pubsub_push_auth returns; otherwise it is answered with an
\* authentication error and the gate is as it was, no caller having entered
\* it or started _process_ingest_message.
C36_PushIsAuthenticatedBeforeTheGate ==
  /\ [](auth.pc = "process_pubsub" /\ auth.status # 400 =>
          /\ auth.status = 200 <=> PushAdmissible(auth.envelope, auth.request, auth.config)
          /\ auth.status # 200 =>
               auth.status \in AuthenticationErrors(auth.envelope, auth.request, auth.config))
  /\ [][/\ (auth' # auth /\ auth'.status # 200) => gate' = gate
        /\ \A c \in Callers :
             (gate.pc[c] = "idle" /\ gate'.pc[c] # "idle") =>
               /\ auth'.caller = c
               /\ auth'.status = 200
               /\ PushAdmissible(auth'.envelope, auth'.request, auth'.config)]_vars

\* The request that holds a permit was let in by the push allow-lists after
\* require_auth had raised
C36_Witness ==
  /\ auth.pc = "process_pubsub"
  /\ auth.status = 200
  /\ gate.pc[auth.caller] = "entering"
  /\ require_auth(auth.request, auth.config, auth.envelope.tenant).returned = "raised"
  /\ require_pubsub_push_auth(auth.request, auth.config).returned # "raised"

\* The four deletion fields of a soft-deleted row are kept and the row stays
\* in its place
DeletionIsKept ==
  \A i \in 1..Len(audit_artifacts) :
    audit_artifacts[i].deleted_at # NULL =>
      /\ i <= Len(audit_artifacts')
      /\ audit_artifacts'[i].artifact_id = audit_artifacts[i].artifact_id
      /\ audit_artifacts'[i].deleted_at = audit_artifacts[i].deleted_at
      /\ audit_artifacts'[i].deleted_by = audit_artifacts[i].deleted_by
      /\ audit_artifacts'[i].deletion_reason = audit_artifacts[i].deletion_reason
      /\ audit_artifacts'[i].delete_job_id = audit_artifacts[i].delete_job_id

\* A row becomes soft-deleted by an enforcement call only
DeletedByEnforcementOnly ==
  \A i \in 1..Len(audit_artifacts) :
    (audit_artifacts[i].deleted_at = NULL /\ audit_artifacts'[i].deleted_at # NULL) =>
      /\ audit_artifacts'[i].deletion_reason = "retention_expired"
      /\ audit_artifacts'[i].delete_job_id \in {JobId, OverlappingJobId}

\* The call in `run` lists a soft-deleted row among its candidates
ScansDeleted ==
  /\ run.pc = "idle"
  /\ run'.pc # "idle"
  /\ \E i \in 1..Len(run'.candidates) : RowOf(run'.candidates[i].artifact_id).deleted_at # NULL

\* The call in `run` adds the item of a row that is soft-deleted already
ReportsDeleted ==
  /\ run.pc # "idle"
  /\ run'.pc # "idle"
  /\ Len(run'.items) > Len(run.items)
  /\ RowOf(run'.items[Len(run'.items)].artifact_id).deleted_at # NULL

\* C37 as stated: rows are soft-deleted by retention enforcement only; a
\* soft-deleted row keeps deleted_at, deleted_by, deletion_reason and
\* delete_job_id and is never removed; and no enforcement call lists it or
\* adds an item for it, also when two calls overlap.
C37_SoftDeletionIsMonotonic ==
  [][DeletionIsKept /\ DeletedByEnforcementOnly /\ ~ScansDeleted /\ ~ReportsDeleted]_vars

====
